---- MODULE Spec2Model ----
(***************************************************************************)
(* citrinelexer: the SQL scanner (lexer.go) and the recursive-descent      *)
(* parser (ast.go).                                                        *)
(*                                                                         *)
(* A Go string is a TLA+ string; a rune is a string of length one.  The    *)
(* scanner indexes the input by byte, so every rune it sees is one byte.   *)
(* Go's 0-based input[i] is SubSeq(input, i+1, i+1) and input[a:b] is      *)
(* SubSeq(input, a+1, b).  Token types are the names of the Go constants.  *)
(* A nil pointer, nil interface or nil error is the record nil.            *)
(***************************************************************************)
EXTENDS Integers, Sequences, FiniteSets, TLC

VARIABLES
    sql,    \* the text handed to NewLexer / Parse
    form,   \* how sql was assembled (the shape of the input; read by the properties only)
    l,      \* the Lexer the caller steps with NextToken
    toks,   \* the tokens NextToken has returned on l, in call order
    g,      \* a second Lexer over sql, the one GetAllTokens is called on
    all,    \* what GetAllTokens returned on g
    res     \* what Parse(sql) returned

vars == <<sql, form, l, toks, g, all, res>>

(***************************************************************************)
(* Runes                                                                   *)
(***************************************************************************)

\* The rune 0: what readChar stores at input end and what a zero byte of the
\* input reads as.  A TLA+ string cannot spell byte 0x00, so the form-feed
\* character stands for it; form feed itself is outside the modelled texts.
NUL == "\f"

\* The rune 0x60 of the backtick-quoted identifiers.  A TLA+ string cannot
\* spell it, so the closing brace stands for it; the closing brace itself is
\* outside the modelled texts.
Backtick == "}"

\* TLA+ strings hold ASCII only, so two ASCII characters that are outside
\* the modelled texts stand for two bytes above 0x7F.  The tilde stands for
\* 0xA9, which readChar widens to the rune U+00A9, no letter and no digit.
HighByte == "~"

\* The caret stands for 0xC2, the lead byte of the two-byte UTF-8 form of
\* the runes U+0080..U+00BF (the copyright sign is 0xC2 0xA9).  Read alone
\* it is the rune U+00C2, which unicode.IsLetter takes for a letter.
UTF8Lead == "^"

LowerLetters ==
    {"a","b","c","d","e","f","g","h","i","j","k","l","m",
     "n","o","p","q","r","s","t","u","v","w","x","y","z"}

UpperLetters ==
    {"A","B","C","D","E","F","G","H","I","J","K","L","M",
     "N","O","P","Q","R","S","T","U","V","W","X","Y","Z"}

Digits == {"0","1","2","3","4","5","6","7","8","9"}

\* isLetter: ASCII letters and underscore, and what unicode.IsLetter adds,
\* which of the modelled bytes above 0x7F is U+00C2.
isLetter(ch) == ch \in LowerLetters \/ ch \in UpperLetters \/ ch = "_" \/ ch = UTF8Lead

\* isDigit: unicode.IsDigit adds no byte-sized rune to '0'..'9'.
isDigit(ch) == ch \in Digits

isHexDigit(ch) ==
    isDigit(ch) \/ ch \in {"a","b","c","d","e","f"} \/ ch \in {"A","B","C","D","E","F"}

\* unicode.IsSpace on the modelled runes.
isSpace(ch) == ch \in {" ", "\t", "\n", "\r"}

upperOf ==
    [c \in LowerLetters |->
        CASE c = "a" -> "A" [] c = "b" -> "B" [] c = "c" -> "C" [] c = "d" -> "D"
          [] c = "e" -> "E" [] c = "f" -> "F" [] c = "g" -> "G" [] c = "h" -> "H"
          [] c = "i" -> "I" [] c = "j" -> "J" [] c = "k" -> "K" [] c = "l" -> "L"
          [] c = "m" -> "M" [] c = "n" -> "N" [] c = "o" -> "O" [] c = "p" -> "P"
          [] c = "q" -> "Q" [] c = "r" -> "R" [] c = "s" -> "S" [] c = "t" -> "T"
          [] c = "u" -> "U" [] c = "v" -> "V" [] c = "w" -> "W" [] c = "x" -> "X"
          [] c = "y" -> "Y" [] c = "z" -> "Z"]

\* strings.ToUpper
RECURSIVE ToUpper(_)
ToUpper(s) ==
    IF s = "" THEN ""
    ELSE LET c == Head(s)
         IN (IF c \in LowerLetters THEN upperOf[c] ELSE c) \o ToUpper(Tail(s))

(***************************************************************************)
(* Token tables                                                            *)
(***************************************************************************)

\* var keywords: every entry maps a word to the constant of the same name.
keywords ==
    {"SELECT", "FROM", "WHERE", "INSERT", "UPDATE", "DELETE", "CREATE", "TABLE",
     "TRUNCATE", "DROP", "ALTER", "INDEX",
     "PRIMARY", "KEY", "FOREIGN", "REFERENCES", "NOT", "NULL", "DEFAULT",
     "AUTO_INCREMENT", "AUTOINCREMENT", "UNIQUE", "CHECK", "CONSTRAINT", "COLLATE",
     "DATABASE", "SCHEMA", "CASCADE", "RESTRICT", "CONFLICT", "REPLACE", "IGNORE",
     "FAIL", "ABORT", "ROLLBACK", "WITHOUT", "ROWID",
     "PRAGMA", "VACUUM", "REINDEX", "ANALYZE", "ATTACH", "DETACH", "EXPLAIN",
     "QUERY", "PLAN",
     "INT", "INTEGER", "VARCHAR", "TEXT", "CHAR", "BOOLEAN", "REAL", "BLOB",
     "DATETIME", "TIMESTAMP",
     "ORDER", "BY", "GROUP", "HAVING", "LIMIT", "OFFSET", "INNER", "LEFT", "RIGHT",
     "FULL", "OUTER", "CROSS", "JOIN", "ON", "AS", "DISTINCT", "UNION", "INTERSECT",
     "EXCEPT",
     "OVER", "PARTITION", "WINDOW", "ROWS", "RANGE", "UNBOUNDED", "PRECEDING",
     "FOLLOWING", "CURRENT", "ROW",
     "CASE", "WHEN", "THEN", "ELSE", "END",
     "COUNT", "SUM", "AVG", "MAX", "MIN",
     "AND", "OR", "IN", "LIKE", "GLOB", "MATCH", "REGEXP", "BETWEEN", "IS",
     "ISNULL", "NOTNULL", "EXISTS",
     "BEGIN", "COMMIT", "TRANSACTION",
     "TRUE", "FALSE"}

\* lookupIdent looking the identifier up as it is written.
lookupIdentExact(ident) ==
    IF ident \in keywords THEN ident ELSE "IDENTIFIER"

lookupIdent(ident) ==
    IF ToUpper(ident) \in keywords THEN ToUpper(ident) ELSE "IDENTIFIER"

\* var singleCharTokens: rune -> token type (the Value is the rune itself).
singleCharTokens ==
    [c \in {";", ",", "(", ")", ".", "*", "+", "-", "/", "%", "[", "]", ":", "|", "!"} |->
        CASE c = ";" -> "SEMICOLON" [] c = "," -> "COMMA"    [] c = "(" -> "LPAREN"
          [] c = ")" -> "RPAREN"    [] c = "." -> "DOT"      [] c = "*" -> "ASTERISK"
          [] c = "+" -> "PLUS"      [] c = "-" -> "MINUS"    [] c = "/" -> "DIVIDE"
          [] c = "%" -> "MODULO"    [] c = "[" -> "LBRACKET" [] c = "]" -> "RBRACKET"
          [] c = ":" -> "COLON"     [] c = "|" -> "PIPE"     [] c = "!" -> "BANG"]

Token(type, value, line, col) == [Type |-> type, Value |-> value, Line |-> line, Col |-> col]

(***************************************************************************)
(* Lexer                                                                   *)
(***************************************************************************)

\* x := value; Op(x): a Go local declared once and read by what follows.
Bind(value, Op(_)) == Op(value)

\* input[i] for a 0-based i inside the text.
ByteAt(input, i) == SubSeq(input, i + 1, i + 1)

\* input[a:b]: Go panics unless 0 <= a <= b <= len(input).  The Lexer record
\* carries the panic as a flag that is never cleared.
SliceOK(input, a, b) == 0 <= a /\ a <= b /\ b <= Len(input)

Slice(input, a, b) == IF SliceOK(input, a, b) THEN SubSeq(input, a + 1, b) ELSE ""

\* readChar starting the column over at a line end without counting the line.
readCharSameLine(lx) ==
    IF lx.readPos >= Len(lx.input)
    THEN [lx EXCEPT !.position = lx.readPos, !.ch = NUL, !.readPos = lx.readPos + 1]
    ELSE [lx EXCEPT !.position = lx.readPos,
                    !.ch = ByteAt(lx.input, lx.readPos),
                    !.readPos = lx.readPos + 1,
                    !.col = IF ByteAt(lx.input, lx.readPos) = "\n" THEN 0 ELSE lx.col + 1]

readChar(lx) ==
    IF lx.readPos >= Len(lx.input)
    THEN [lx EXCEPT !.position = lx.readPos, !.ch = NUL, !.readPos = lx.readPos + 1]
    ELSE LET c == ByteAt(lx.input, lx.readPos)
         IN [lx EXCEPT !.position = lx.readPos,
                       !.ch = c,
                       !.readPos = lx.readPos + 1,
                       !.line = IF c = "\n" THEN lx.line + 1 ELSE lx.line,
                       !.col = IF c = "\n" THEN 0 ELSE lx.col + 1]

NewLexer(input) ==
    readChar([input |-> input, position |-> 0, readPos |-> 0, ch |-> NUL,
              line |-> 1, col |-> 0, panicked |-> FALSE])

\* peekChar giving the rune under the cursor, not the one behind it.
peekCharHere(lx) == lx.ch

peekChar(lx) ==
    IF lx.readPos >= Len(lx.input) THEN NUL ELSE ByteAt(lx.input, lx.readPos)

IsAtEnd(lx) == lx.ch = NUL

GetCurrentPosition(lx) == <<lx.line, lx.col>>

MakeToken(lx, tokenType, value) == Token(tokenType, value, lx.line, lx.col)

RECURSIVE skipWhitespace(_)
skipWhitespace(lx) ==
    IF lx.ch = " " \/ lx.ch = "\t" \/ lx.ch = "\n" \/ lx.ch = "\r"
    THEN skipWhitespace(readChar(lx))
    ELSE IF isSpace(lx.ch) THEN skipWhitespace(readChar(lx))
    ELSE lx

\* The loops of the read* functions: readChar while the rune satisfies the test.
RECURSIVE whileLetterOrDigit(_)
whileLetterOrDigit(lx) ==
    IF isLetter(lx.ch) \/ isDigit(lx.ch) THEN whileLetterOrDigit(readChar(lx)) ELSE lx

RECURSIVE whileDigit(_)
whileDigit(lx) == IF isDigit(lx.ch) THEN whileDigit(readChar(lx)) ELSE lx

RECURSIVE whileHexDigit(_)
whileHexDigit(lx) == IF isHexDigit(lx.ch) THEN whileHexDigit(readChar(lx)) ELSE lx

\* A read* function returns the lexer it leaves behind and the string it read.
Read(lx, start, stop) ==
    [l |-> [lx EXCEPT !.panicked = lx.panicked \/ ~SliceOK(lx.input, start, stop)],
     value |-> Slice(lx.input, start, stop)]

readIdentifier(lx) ==
    Bind(whileLetterOrDigit(lx), LAMBDA l1 : Read(l1, lx.position, l1.position))

\* readNumber with no branch for 0x: digits, a fraction and an exponent only.
readNumberPlain(lx) ==
    Bind(whileDigit(lx), LAMBDA l1 :
    Bind(IF l1.ch = "." /\ isDigit(peekChar(l1))
         THEN whileDigit(readChar(l1))
         ELSE l1, LAMBDA l2 :
    Bind(IF l2.ch = "e" \/ l2.ch = "E"
         THEN Bind(readChar(l2), LAMBDA l4 :
              whileDigit(IF l4.ch = "+" \/ l4.ch = "-" THEN readChar(l4) ELSE l4))
         ELSE l2, LAMBDA l3 :
    Read(l3, lx.position, l3.position))))

readNumber(lx) ==
    IF lx.ch = "0" /\ (peekChar(lx) = "x" \/ peekChar(lx) = "X")
    THEN Bind(whileHexDigit(readChar(readChar(lx))), LAMBDA l1 :
         Read(l1, lx.position, l1.position))
    ELSE Bind(whileDigit(lx), LAMBDA l1 :
         Bind(IF l1.ch = "." /\ isDigit(peekChar(l1))
              THEN whileDigit(readChar(l1))
              ELSE l1, LAMBDA l2 :
         Bind(IF l2.ch = "e" \/ l2.ch = "E"
              THEN Bind(readChar(l2), LAMBDA l4 :
                   whileDigit(IF l4.ch = "+" \/ l4.ch = "-" THEN readChar(l4) ELSE l4))
              ELSE l2, LAMBDA l3 :
         Read(l3, lx.position, l3.position))))

\* result.WriteRune(ch) and string(ch): the UTF-8 form of the rune, one byte
\* up to U+007F.  (U+00C2 is a letter and stands in no quoted text, so it is
\* never written.)
WriteRune(ch) == IF ch = HighByte THEN UTF8Lead \o ch ELSE ch

\* The for loop of readString, with the strings.Builder as result.
RECURSIVE readStringLoop(_, _, _)
readStringLoop(lx, delimiter, result) ==
    IF lx.ch = NUL THEN [l |-> lx, value |-> result]
    ELSE IF lx.ch = delimiter
    THEN IF peekChar(lx) = delimiter
         THEN readStringLoop(readChar(readChar(lx)), delimiter, result \o WriteRune(lx.ch))
         ELSE [l |-> readChar(lx), value |-> result]
    ELSE IF lx.ch = "\\" /\ peekChar(lx) = delimiter
    THEN Bind(readChar(lx), LAMBDA l1 :
         readStringLoop(readChar(l1), delimiter, result \o WriteRune(l1.ch)))
    ELSE readStringLoop(readChar(lx), delimiter, result \o WriteRune(lx.ch))

readString(lx, delimiter) == readStringLoop(readChar(lx), delimiter, "")

RECURSIVE skipLineComment(_)
skipLineComment(lx) ==
    IF lx.ch # "\n" /\ lx.ch # NUL THEN skipLineComment(readChar(lx)) ELSE lx

RECURSIVE skipBlockCommentLoop(_)
skipBlockCommentLoop(lx) ==
    IF lx.ch = NUL THEN lx
    ELSE IF lx.ch = "*" /\ peekChar(lx) = "/" THEN readChar(readChar(lx))
    ELSE skipBlockCommentLoop(readChar(lx))

skipBlockComment(lx) == skipBlockCommentLoop(readChar(readChar(lx)))

RECURSIVE whileNameChar(_)
whileNameChar(lx) ==
    IF isLetter(lx.ch) \/ isDigit(lx.ch) \/ lx.ch = "_"
    THEN whileNameChar(readChar(lx))
    ELSE lx

\* readNamedParameter returning the name without its sigil.
readNamedParameterBare(lx) ==
    Bind(whileNameChar(readChar(lx)), LAMBDA l1 : Read(l1, lx.position + 1, l1.position))

readNamedParameter(lx) ==
    Bind(whileNameChar(readChar(lx)), LAMBDA l1 : Read(l1, lx.position, l1.position))

RECURSIVE whileNotBracket(_)
whileNotBracket(lx) ==
    IF lx.ch # "]" /\ lx.ch # NUL THEN whileNotBracket(readChar(lx)) ELSE lx

\* readBracketIdentifier cutting the closing bracket off by index: input[position+1 : l.position-1].
readBracketIdentifierCut(lx) ==
    Bind(whileNotBracket(readChar(lx)), LAMBDA l1 :
    Bind(Read(l1, lx.position + 1, l1.position - 1), LAMBDA r :
    [l |-> IF l1.ch = "]" THEN readChar(r.l) ELSE r.l, value |-> r.value]))

readBracketIdentifier(lx) ==
    Bind(whileNotBracket(readChar(lx)), LAMBDA l1 :
    Bind(Read(l1, lx.position + 1, l1.position), LAMBDA r :
    [l |-> IF l1.ch = "]" THEN readChar(r.l) ELSE r.l, value |-> r.value]))

\* A token that leaves NextToken through its final l.readChar(); return.
Step(lx, tok) == [l |-> readChar(lx), tok |-> tok]

\* A token returned from inside the switch, with the lexer as the read* left it.
Early(r, tokenType) == [l |-> r.l, tok |-> Token(tokenType, r.value, r.l.line, r.l.col)]

\* if charToken, ok := singleCharTokens[l.ch]; ok {...} else {ILLEGAL}
charToken(lx) ==
    IF lx.ch \in DOMAIN singleCharTokens
    THEN Token(singleCharTokens[lx.ch], lx.ch, lx.line, lx.col)
    ELSE Token("ILLEGAL", WriteRune(lx.ch), lx.line, lx.col)

\* Pair leaving the second rune of the operator unread.
PairUnread(lx, tokenType, value) == Step(lx, Token(tokenType, value, lx.line, lx.col))

\* The two-rune operators: Col is computed after the second rune was read.
Pair(lx, tokenType, value) ==
    Bind(readChar(lx), LAMBDA l1 : Step(l1, Token(tokenType, value, l1.line, l1.col - 1)))

RECURSIVE NextToken(_)
NextToken(lx0) ==
    Bind(skipWhitespace(lx0), LAMBDA lx :
       CASE lx.ch = "=" ->
              IF peekChar(lx) = "=" THEN Pair(lx, "EQUAL", "==")
              ELSE Step(lx, MakeToken(lx, "EQUAL", "="))
         [] lx.ch = ">" ->
              IF peekChar(lx) = "=" THEN Pair(lx, "GREATER_EQUAL", ">=")
              ELSE Step(lx, Token("GREATER", ">", lx.line, lx.col))
         [] lx.ch = "<" ->
              IF peekChar(lx) = "=" THEN Pair(lx, "LESS_EQUAL", "<=")
              ELSE IF peekChar(lx) = ">" THEN Pair(lx, "NOT_EQUAL2", "<>")
              ELSE Step(lx, Token("LESS", "<", lx.line, lx.col))
         [] lx.ch = "!" ->
              IF peekChar(lx) = "=" THEN Pair(lx, "NOT_EQUAL", "!=")
              ELSE Step(lx, Token("BANG", lx.ch, lx.line, lx.col))
         [] lx.ch = "|" ->
              IF peekChar(lx) = "|" THEN Pair(lx, "CONCAT", "||")
              ELSE Step(lx, Token("PIPE", "|", lx.line, lx.col))
         [] lx.ch = "-" ->
              IF peekChar(lx) = "-" THEN NextToken(skipLineComment(lx))
              ELSE Step(lx, charToken(lx))
         [] lx.ch = "/" ->
              IF peekChar(lx) = "*" THEN NextToken(skipBlockComment(lx))
              ELSE Step(lx, charToken(lx))
         [] lx.ch \in {";", ",", "(", ")", "*", "+", "%", "]"} ->
              Step(lx, charToken(lx))
         [] lx.ch = "." ->
              IF isDigit(peekChar(lx)) THEN Early(readNumber(lx), "NUMBER")
              ELSE Step(lx, Token("DOT", ".", lx.line, lx.col))
         [] lx.ch = "'" -> Early(readString(lx, "'"), "STRING")
         [] lx.ch = "\"" -> Early(readString(lx, "\""), "IDENTIFIER")
         [] lx.ch = Backtick -> Early(readString(lx, Backtick), "IDENTIFIER")
         [] lx.ch = "[" -> Early(readBracketIdentifier(lx), "IDENTIFIER")
         [] lx.ch = "?" -> Step(lx, Token("PARAMETER", "?", lx.line, lx.col))
         [] lx.ch = ":" ->
              IF isLetter(peekChar(lx)) THEN Early(readNamedParameter(lx), "NAMED_PARAMETER")
              ELSE Step(lx, charToken(lx))
         [] lx.ch = "$" ->
              IF isLetter(peekChar(lx)) \/ isDigit(peekChar(lx))
              THEN Early(readNamedParameter(lx), "NAMED_PARAMETER")
              ELSE Step(lx, Token("ILLEGAL", lx.ch, lx.line, lx.col))
         [] lx.ch = NUL -> Step(lx, Token("EOF", "", lx.line, lx.col))
         [] OTHER ->
              IF isLetter(lx.ch)
              THEN Bind(readIdentifier(lx), LAMBDA r :
                   [l |-> r.l, tok |-> Token(lookupIdent(r.value), r.value, r.l.line, r.l.col)])
              ELSE IF isDigit(lx.ch) THEN Early(readNumber(lx), "NUMBER")
              ELSE Step(lx, Token("ILLEGAL", WriteRune(lx.ch), lx.line, lx.col)))

\* GetAllTokens with the EOF test before the append: the EOF token is left out.
RECURSIVE GetAllTokensLoopNoEOF(_, _)
GetAllTokensLoopNoEOF(lx, tokens) ==
    Bind(NextToken(lx), LAMBDA r :
    IF r.tok.Type = "EOF" THEN [l |-> r.l, outcome |-> "returned", tokens |-> tokens]
    ELSE GetAllTokensLoopNoEOF(r.l, Append(tokens, r.tok)))

\* GetAllTokens: for { NextToken; append; if EOF break }.  Every token but the
\* EOF takes at least one byte of the input, so a loop that has appended
\* more tokens than the input has bytes, and no EOF, never ends.
RECURSIVE GetAllTokensLoop(_, _)
GetAllTokensLoop(lx, tokens) ==
    Bind(NextToken(lx), LAMBDA r :
    Bind(Append(tokens, r.tok), LAMBDA appended :
    IF r.tok.Type = "EOF" THEN [l |-> r.l, outcome |-> "returned", tokens |-> appended]
    ELSE IF Len(appended) > Len(lx.input)
    THEN [l |-> r.l, outcome |-> "hang", tokens |-> appended]
    ELSE GetAllTokensLoop(r.l, appended)))

GetAllTokens(lx) == GetAllTokensLoop(lx, <<>>)

(***************************************************************************)
(* AST nodes (ast.go).  A node is a record tagged with its Go type.        *)
(***************************************************************************)

\* nil, with the static type the Go value has (a nil *SelectStatement
\* returned as a Statement is not the nil interface, but holds no node).
Nil(type) == [kind |-> "nil", type |-> type]

nil == Nil("nil")

IsNil(x) == x.kind = "nil"

\* fmt.Errorf(format, arg): the format and its argument ("" when it has none).
Errorf(format, arg) == [kind |-> "error", format |-> format, arg |-> arg]

\* Not a Go value: what a call that never returns is given.  It is passed
\* up like an error, so nothing after the endless loop runs.
Hang == [kind |-> "hang", format |-> "", arg |-> ""]

Identifier(name, pos) == [kind |-> "Identifier", Name |-> name, Pos_ |-> pos]

StringLiteral(value, pos) == [kind |-> "StringLiteral", Value |-> value, Pos_ |-> pos]

NumberLiteral(value, pos) == [kind |-> "NumberLiteral", Value |-> value, Pos_ |-> pos]

BooleanLiteral(value, pos) == [kind |-> "BooleanLiteral", Value |-> value, Pos_ |-> pos]

Parameter(name, pos) == [kind |-> "Parameter", Name |-> name, Pos_ |-> pos]

BinaryExpression(left, operator, right, pos) ==
    [kind |-> "BinaryExpression", Left |-> left, Operator |-> operator,
     Right |-> right, Pos_ |-> pos]

FunctionCall(name, args, pos) ==
    [kind |-> "FunctionCall", Name |-> name, Args |-> args, Pos_ |-> pos]

TableRef(name, alias) == [kind |-> "TableRef", Name |-> name, Alias |-> alias]

OrderByItem(expression, direction) ==
    [kind |-> "OrderByItem", Expression |-> expression, Direction |-> direction]

LimitClause(count, offset) == [kind |-> "LimitClause", Count |-> count, Offset |-> offset]

ColumnDef(name, type, constraints) ==
    [kind |-> "ColumnDef", Name |-> name, Type |-> type, Constraints |-> constraints]

PrimaryKeyConstraint(pos) == [kind |-> "PrimaryKeyConstraint", Pos_ |-> pos]

NotNullConstraint(pos) == [kind |-> "NotNullConstraint", Pos_ |-> pos]

(***************************************************************************)
(* Parser (ast.go).  A parse function takes the Parser and returns the     *)
(* Parser it leaves behind, its value and its error.                       *)
(***************************************************************************)

Ret(p, val, err) == [p |-> p, val |-> val, err |-> err]

nextToken(p) ==
    Bind(NextToken(p.lexer), LAMBDA r :
    [p EXCEPT !.currentToken = p.peekToken, !.peekToken = r.tok, !.lexer = r.l])

\* The zero Token: TokenType 0 is SELECT.
ZeroToken == Token("SELECT", "", 0, 0)

\* NewParser with a third nextToken: a parser that primes its window once too often.
NewParserSkipping(lexer) ==
    nextToken(nextToken(nextToken([lexer |-> lexer, currentToken |-> ZeroToken,
                                   peekToken |-> ZeroToken, errors |-> <<>>])))

NewParser(lexer) ==
    nextToken(nextToken([lexer |-> lexer, currentToken |-> ZeroToken,
                         peekToken |-> ZeroToken, errors |-> <<>>]))

expectToken(p, expected) ==
    IF p.currentToken.Type = expected
    THEN [p |-> nextToken(p), ok |-> TRUE]
    ELSE [p |-> p, ok |-> FALSE]

isDataType(p) ==
    p.currentToken.Type \in {"INTEGER", "INT", "TEXT", "VARCHAR", "CHAR", "REAL",
                             "BLOB", "BOOLEAN", "DATETIME", "TIMESTAMP"}

isConstraintKeyword(p) == p.currentToken.Type \in {"PRIMARY", "NOT", "UNIQUE", "DEFAULT"}

isComparisonOperator(p) ==
    p.currentToken.Type \in {"EQUAL", "NOT_EQUAL", "NOT_EQUAL2", "GREATER", "LESS",
                             "GREATER_EQUAL", "LESS_EQUAL", "LIKE"}

\* A loop of the parser that ends consumes a token in every iteration but
\* its last, and a text of n bytes holds at most n tokens before its EOF:
\* a loop that starts iteration n + 2 never ends.
NeverEnds(p, iterations) == iterations > Len(p.lexer.input) + 1

RECURSIVE parsePrimary(_)
RECURSIVE parseArguments(_, _)

parseComparison(p) ==
    Bind(parsePrimary(p), LAMBDA left :
    IF ~IsNil(left.err) THEN Ret(left.p, nil, left.err)
    ELSE IF isComparisonOperator(left.p)
    THEN Bind(parsePrimary(nextToken(left.p)), LAMBDA right :
         IF ~IsNil(right.err) THEN Ret(right.p, nil, right.err)
         ELSE Ret(right.p,
                  BinaryExpression(left.val, left.p.currentToken.Value, right.val,
                                   left.p.currentToken.Col),
                  nil))
    ELSE Ret(left.p, left.val, nil))

parseExpression(p) == parseComparison(p)

\* The argument loop of parsePrimary: for { parseExpression; if not COMMA break; nextToken }
parseArguments(p, args) ==
    IF NeverEnds(p, Len(args) + 1) THEN Ret(p, nil, Hang)
    ELSE Bind(parseExpression(p), LAMBDA arg :
         IF ~IsNil(arg.err) THEN Ret(arg.p, nil, arg.err)
         ELSE IF arg.p.currentToken.Type # "COMMA"
         THEN Ret(arg.p, Append(args, arg.val), nil)
         ELSE parseArguments(nextToken(arg.p), Append(args, arg.val)))

parsePrimary(p) ==
    Bind(p.currentToken, LAMBDA tok :
    CASE tok.Type \in {"IDENTIFIER", "COUNT", "SUM", "AVG", "MIN", "MAX"} ->
           IF p.currentToken.Type = "LPAREN"
           THEN Bind(nextToken(p), LAMBDA p1 :
                Bind(IF p1.currentToken.Type # "RPAREN"
                     THEN parseArguments(p1, <<>>)
                     ELSE Ret(p1, <<>>, nil), LAMBDA args :
                IF ~IsNil(args.err) THEN Ret(args.p, nil, args.err)
                ELSE Bind(expectToken(args.p, "RPAREN"), LAMBDA close :
                     IF ~close.ok THEN Ret(close.p, nil, Errorf("expected )", ""))
                     ELSE Ret(close.p, FunctionCall(tok.Value, args.val, tok.Col), nil))))
           ELSE Ret(p, Identifier(tok.Value, tok.Col), nil)
      [] tok.Type = "STRING" -> Ret(nextToken(p), StringLiteral(tok.Value, tok.Col), nil)
      [] tok.Type = "NUMBER" -> Ret(nextToken(p), NumberLiteral(tok.Value, tok.Col), nil)
      [] tok.Type \in {"TRUE", "FALSE"} ->
           Ret(nextToken(p), BooleanLiteral(tok.Type = "TRUE", tok.Col), nil)
      [] tok.Type = "PARAMETER" -> Ret(nextToken(p), Parameter("", tok.Col), nil)
      [] tok.Type = "NAMED_PARAMETER" -> Ret(nextToken(p), Parameter(tok.Value, tok.Col), nil)
      [] OTHER -> Ret(p, nil, Errorf("unexpected token: %s", tok.Type)))

parseTableRef(p) ==
    IF p.currentToken.Type # "IDENTIFIER"
    THEN Ret(p, Nil("*TableRef"), Errorf("expected table name", ""))
    ELSE Bind(Identifier(p.currentToken.Value, p.currentToken.Col), LAMBDA name :
         Bind(nextToken(p), LAMBDA p1 :
         IF p1.currentToken.Type = "AS"
         THEN Bind(nextToken(p1), LAMBDA p2 :
              IF p2.currentToken.Type # "IDENTIFIER"
              THEN Ret(p2, Nil("*TableRef"), Errorf("expected alias after AS", ""))
              ELSE Ret(nextToken(p2),
                       TableRef(name, Identifier(p2.currentToken.Value,
                                                 p2.currentToken.Col)),
                       nil))
         ELSE Ret(p1, TableRef(name, Nil("*Identifier")), nil)))

\* if current is the IDENTIFIER DESC or ASC { direction = its Value; nextToken }
hasDirection(p) ==
    /\ p.currentToken.Type = "IDENTIFIER"
    /\ (p.currentToken.Value = "DESC" \/ p.currentToken.Value = "ASC")

\* for { parseExpression; direction; append; if not COMMA break; nextToken }
RECURSIVE parseOrderByLoop(_, _)
parseOrderByLoop(p, items) ==
    IF NeverEnds(p, Len(items) + 1) THEN Ret(p, nil, Hang)
    ELSE Bind(parseExpression(p), LAMBDA expr :
         IF ~IsNil(expr.err) THEN Ret(expr.p, nil, expr.err)
         ELSE Bind(IF hasDirection(expr.p) THEN expr.p.currentToken.Value ELSE "ASC",
                   LAMBDA direction :
              Bind(IF hasDirection(expr.p) THEN nextToken(expr.p) ELSE expr.p, LAMBDA p2 :
              Bind(Append(items, OrderByItem(expr.val, direction)), LAMBDA appended :
              IF p2.currentToken.Type # "COMMA" THEN Ret(p2, appended, nil)
              ELSE parseOrderByLoop(nextToken(p2), appended)))))

parseOrderBy(p) == parseOrderByLoop(p, <<>>)

parseLimitClause(p) ==
    Bind(parseExpression(p), LAMBDA count :
    IF ~IsNil(count.err) THEN Ret(count.p, Nil("*LimitClause"), count.err)
    ELSE IF count.p.currentToken.Type = "OFFSET"
    THEN Bind(parseExpression(nextToken(count.p)), LAMBDA offset :
         IF ~IsNil(offset.err) THEN Ret(offset.p, Nil("*LimitClause"), offset.err)
         ELSE Ret(offset.p, LimitClause(count.val, offset.val), nil))
    ELSE Ret(count.p, LimitClause(count.val, nil), nil))

parseConstraint(p) ==
    CASE p.currentToken.Type = "PRIMARY" ->
           Bind(expectToken(nextToken(p), "KEY"), LAMBDA key :
           IF ~key.ok THEN Ret(key.p, nil, Errorf("expected KEY after PRIMARY", ""))
           ELSE Ret(key.p, PrimaryKeyConstraint(p.currentToken.Col), nil))
      [] p.currentToken.Type = "NOT" ->
           Bind(expectToken(nextToken(p), "NULL"), LAMBDA null :
           IF ~null.ok THEN Ret(null.p, nil, Errorf("expected NULL after NOT", ""))
           ELSE Ret(null.p, NotNullConstraint(p.currentToken.Col), nil))
      [] OTHER -> Ret(p, nil, Errorf("unknown constraint: %s", p.currentToken.Type))

\* The constraint loop as an if: a column takes one constraint at most.
parseConstraintsOne(p, constraints) ==
    IF ~isConstraintKeyword(p) THEN Ret(p, constraints, nil)
    ELSE Bind(parseConstraint(p), LAMBDA constraint :
         IF ~IsNil(constraint.err) THEN Ret(constraint.p, nil, constraint.err)
         ELSE Ret(constraint.p, Append(constraints, constraint.val), nil))

\* for p.isConstraintKeyword() { parseConstraint; append }
RECURSIVE parseConstraints(_, _)
parseConstraints(p, constraints) ==
    IF ~isConstraintKeyword(p) THEN Ret(p, constraints, nil)
    ELSE IF NeverEnds(p, Len(constraints) + 1) THEN Ret(p, nil, Hang)
    ELSE Bind(parseConstraint(p), LAMBDA constraint :
         IF ~IsNil(constraint.err) THEN Ret(constraint.p, nil, constraint.err)
         ELSE parseConstraints(constraint.p, Append(constraints, constraint.val)))

parseColumnDef(p) ==
    IF p.currentToken.Type # "IDENTIFIER"
    THEN Ret(p, Nil("*ColumnDef"), Errorf("expected column name", ""))
    ELSE Bind(Identifier(p.currentToken.Value, p.currentToken.Col), LAMBDA name :
         Bind(nextToken(p), LAMBDA p1 :
         Bind(IF isDataType(p1) THEN p1.currentToken.Value ELSE "", LAMBDA type :
         Bind(parseConstraints(IF isDataType(p1) THEN nextToken(p1) ELSE p1, <<>>),
              LAMBDA constraints :
         IF ~IsNil(constraints.err)
         THEN Ret(constraints.p, Nil("*ColumnDef"), constraints.err)
         ELSE Ret(constraints.p, ColumnDef(name, type, constraints.val), nil)))))

\* for current is neither RPAREN nor EOF { parseColumnDef; append; if COMMA nextToken else break }
RECURSIVE parseColumnDefsLoop(_, _)
parseColumnDefsLoop(p, columns) ==
    IF ~(p.currentToken.Type # "RPAREN" /\ p.currentToken.Type # "EOF")
    THEN Ret(p, columns, nil)
    ELSE IF NeverEnds(p, Len(columns) + 1) THEN Ret(p, nil, Hang)
    ELSE Bind(parseColumnDef(p), LAMBDA col :
         IF ~IsNil(col.err) THEN Ret(col.p, nil, col.err)
         ELSE IF col.p.currentToken.Type = "COMMA"
         THEN parseColumnDefsLoop(nextToken(col.p), Append(columns, col.val))
         ELSE Ret(col.p, Append(columns, col.val), nil))

parseColumnDefs(p) == parseColumnDefsLoop(p, <<>>)

\* The else branch of parseSelectFields:
\* for { parseExpression; append; if not COMMA break; nextToken }
RECURSIVE parseSelectFieldsLoop(_, _)
parseSelectFieldsLoop(p, fields) ==
    IF NeverEnds(p, Len(fields) + 1) THEN Ret(p, nil, Hang)
    ELSE Bind(parseExpression(p), LAMBDA expr :
         IF ~IsNil(expr.err) THEN Ret(expr.p, nil, expr.err)
         ELSE IF expr.p.currentToken.Type # "COMMA"
         THEN Ret(expr.p, Append(fields, expr.val), nil)
         ELSE parseSelectFieldsLoop(nextToken(expr.p), Append(fields, expr.val)))

parseSelectFields(p) ==
    IF p.currentToken.Type = "ASTERISK"
    THEN Ret(nextToken(p), <<Identifier("*", p.currentToken.Col)>>, nil)
    ELSE parseSelectFieldsLoop(p, <<>>)

\* &SelectStatement{Select: pos}: every other field has its zero value.
SelectStatement(pos) ==
    [kind |-> "SelectStatement", Select |-> pos, Fields |-> <<>>,
     From |-> Nil("*TableRef"), Where |-> nil, GroupBy |-> <<>>, Having |-> nil,
     OrderBy |-> <<>>, Limit |-> Nil("*LimitClause")]

CreateTableStatement(pos) ==
    [kind |-> "CreateTableStatement", Create |-> pos, Table |-> Nil("*Identifier"),
     Columns |-> <<>>, Constraints |-> <<>>]

InsertStatement(pos) ==
    [kind |-> "InsertStatement", Insert |-> pos, Table |-> Nil("*Identifier"),
     Columns |-> <<>>, Values |-> <<>>]

UpdateStatement(pos) ==
    [kind |-> "UpdateStatement", Update |-> pos, Table |-> Nil("*Identifier"),
     Set |-> <<>>, Where |-> nil]

DeleteStatement(pos) ==
    [kind |-> "DeleteStatement", Delete |-> pos, From |-> Nil("*Identifier"), Where |-> nil]

\* parseSelectStatement, clause by clause: each part takes what the function
\* has reached so far (the Parser, the statement under construction, or the
\* error it has returned with) and gives what it reaches after the clause.
selectFrom(r) ==
    IF ~IsNil(r.err) \/ r.p.currentToken.Type # "FROM" THEN r
    ELSE Bind(parseTableRef(nextToken(r.p)), LAMBDA from :
         IF ~IsNil(from.err) THEN Ret(from.p, Nil("*SelectStatement"), from.err)
         ELSE Ret(from.p, [r.val EXCEPT !.From = from.val], nil))

selectWhere(r) ==
    IF ~IsNil(r.err) \/ r.p.currentToken.Type # "WHERE" THEN r
    ELSE Bind(parseExpression(nextToken(r.p)), LAMBDA where :
         IF ~IsNil(where.err) THEN Ret(where.p, Nil("*SelectStatement"), where.err)
         ELSE Ret(where.p, [r.val EXCEPT !.Where = where.val], nil))

selectOrderBy(r) ==
    IF ~IsNil(r.err) \/ r.p.currentToken.Type # "ORDER" THEN r
    ELSE Bind(expectToken(nextToken(r.p), "BY"), LAMBDA by :
         IF ~by.ok
         THEN Ret(by.p, Nil("*SelectStatement"), Errorf("expected BY after ORDER", ""))
         ELSE Bind(parseOrderBy(by.p), LAMBDA orderBy :
              IF ~IsNil(orderBy.err)
              THEN Ret(orderBy.p, Nil("*SelectStatement"), orderBy.err)
              ELSE Ret(orderBy.p, [r.val EXCEPT !.OrderBy = orderBy.val], nil)))

selectLimit(r) ==
    IF ~IsNil(r.err) \/ r.p.currentToken.Type # "LIMIT" THEN r
    ELSE Bind(parseLimitClause(nextToken(r.p)), LAMBDA limit :
         IF ~IsNil(limit.err) THEN Ret(limit.p, Nil("*SelectStatement"), limit.err)
         ELSE Ret(limit.p, [r.val EXCEPT !.Limit = limit.val], nil))

parseSelectStatement(p) ==
    Bind(expectToken(p, "SELECT"), LAMBDA select :
    IF ~select.ok THEN Ret(select.p, Nil("*SelectStatement"), Errorf("expected SELECT", ""))
    ELSE Bind(parseSelectFields(select.p), LAMBDA fields :
         IF ~IsNil(fields.err) THEN Ret(fields.p, Nil("*SelectStatement"), fields.err)
         ELSE selectLimit(selectOrderBy(selectWhere(selectFrom(
                  Ret(fields.p,
                      [SelectStatement(p.currentToken.Col) EXCEPT !.Fields = fields.val],
                      nil)))))))

parseCreateStatement(p) ==
    Bind(expectToken(p, "CREATE"), LAMBDA create :
    IF ~create.ok
    THEN Ret(create.p, Nil("*CreateTableStatement"), Errorf("expected CREATE", ""))
    ELSE Bind(expectToken(create.p, "TABLE"), LAMBDA table :
    IF ~table.ok
    THEN Ret(table.p, Nil("*CreateTableStatement"), Errorf("expected TABLE", ""))
    ELSE IF table.p.currentToken.Type # "IDENTIFIER"
    THEN Ret(table.p, Nil("*CreateTableStatement"), Errorf("expected table name", ""))
    ELSE Bind(expectToken(nextToken(table.p), "LPAREN"), LAMBDA lparen :
    IF ~lparen.ok
    THEN Ret(lparen.p, Nil("*CreateTableStatement"), Errorf("expected (", ""))
    ELSE Bind(parseColumnDefs(lparen.p), LAMBDA columns :
    IF ~IsNil(columns.err)
    THEN Ret(columns.p, Nil("*CreateTableStatement"), columns.err)
    ELSE Bind(expectToken(columns.p, "RPAREN"), LAMBDA rparen :
    IF ~rparen.ok
    THEN Ret(rparen.p, Nil("*CreateTableStatement"), Errorf("expected )", ""))
    ELSE Ret(rparen.p,
             [CreateTableStatement(p.currentToken.Col) EXCEPT
                 !.Table = Identifier(table.p.currentToken.Value, table.p.currentToken.Col),
                 !.Columns = columns.val],
             nil))))))

\* parseInsertStatement stepping over a word INTO in front of the table name.
parseInsertStatementInto(p) ==
    Bind(expectToken(p, "INSERT"), LAMBDA insert :
    IF ~insert.ok
    THEN Ret(insert.p, Nil("*InsertStatement"), Errorf("expected INSERT", ""))
    ELSE Bind(IF insert.p.currentToken.Type = "INSERT"
                 \/ ToUpper(insert.p.currentToken.Value) = "INTO"
              THEN nextToken(insert.p) ELSE insert.p,
              LAMBDA p1 :
    IF p1.currentToken.Type # "IDENTIFIER"
    THEN Ret(p1, Nil("*InsertStatement"), Errorf("expected table name", ""))
    ELSE Ret(nextToken(p1),
             [InsertStatement(p.currentToken.Col) EXCEPT
                 !.Table = Identifier(p1.currentToken.Value, p1.currentToken.Col)],
             nil)))

parseInsertStatement(p) ==
    Bind(expectToken(p, "INSERT"), LAMBDA insert :
    IF ~insert.ok
    THEN Ret(insert.p, Nil("*InsertStatement"), Errorf("expected INSERT", ""))
    ELSE Bind(IF insert.p.currentToken.Type = "INSERT" THEN nextToken(insert.p) ELSE insert.p,
              LAMBDA p1 :
    IF p1.currentToken.Type # "IDENTIFIER"
    THEN Ret(p1, Nil("*InsertStatement"), Errorf("expected table name", ""))
    ELSE Ret(nextToken(p1),
             [InsertStatement(p.currentToken.Col) EXCEPT
                 !.Table = Identifier(p1.currentToken.Value, p1.currentToken.Col)],
             nil)))

\* parseUpdateStatement reading a WHERE clause when one follows the table name.
parseUpdateStatementWhere(p) ==
    Bind(expectToken(p, "UPDATE"), LAMBDA update :
    IF ~update.ok
    THEN Ret(update.p, Nil("*UpdateStatement"), Errorf("expected UPDATE", ""))
    ELSE IF update.p.currentToken.Type # "IDENTIFIER"
    THEN Ret(update.p, Nil("*UpdateStatement"), Errorf("expected table name", ""))
    ELSE Bind([UpdateStatement(p.currentToken.Col) EXCEPT
                  !.Table = Identifier(update.p.currentToken.Value,
                                       update.p.currentToken.Col)], LAMBDA stmt :
         Bind(nextToken(update.p), LAMBDA p2 :
         IF p2.currentToken.Type # "WHERE" THEN Ret(p2, stmt, nil)
         ELSE Bind(parseExpression(nextToken(p2)), LAMBDA where :
              IF ~IsNil(where.err) THEN Ret(where.p, Nil("*UpdateStatement"), where.err)
              ELSE Ret(where.p, [stmt EXCEPT !.Where = where.val], nil)))))

parseUpdateStatement(p) ==
    Bind(expectToken(p, "UPDATE"), LAMBDA update :
    IF ~update.ok
    THEN Ret(update.p, Nil("*UpdateStatement"), Errorf("expected UPDATE", ""))
    ELSE IF update.p.currentToken.Type # "IDENTIFIER"
    THEN Ret(update.p, Nil("*UpdateStatement"), Errorf("expected table name", ""))
    ELSE Ret(nextToken(update.p),
             [UpdateStatement(p.currentToken.Col) EXCEPT
                 !.Table = Identifier(update.p.currentToken.Value,
                                      update.p.currentToken.Col)],
             nil))

parseDeleteStatement(p) ==
    Bind(expectToken(p, "DELETE"), LAMBDA delete :
    IF ~delete.ok THEN Ret(delete.p, Nil("*DeleteStatement"), Errorf("expected DELETE", ""))
    ELSE Bind(expectToken(delete.p, "FROM"), LAMBDA from :
    IF ~from.ok THEN Ret(from.p, Nil("*DeleteStatement"), Errorf("expected FROM", ""))
    ELSE IF from.p.currentToken.Type # "IDENTIFIER"
    THEN Ret(from.p, Nil("*DeleteStatement"), Errorf("expected table name", ""))
    ELSE Bind([DeleteStatement(p.currentToken.Col) EXCEPT
                  !.From = Identifier(from.p.currentToken.Value, from.p.currentToken.Col)],
              LAMBDA stmt :
    Bind(nextToken(from.p), LAMBDA p2 :
    IF p2.currentToken.Type # "WHERE" THEN Ret(p2, stmt, nil)
    ELSE Bind(parseExpression(nextToken(p2)), LAMBDA where :
         IF ~IsNil(where.err) THEN Ret(where.p, Nil("*DeleteStatement"), where.err)
         ELSE Ret(where.p, [stmt EXCEPT !.Where = where.val], nil))))))

\* ParseStatement asking for the input end or a ; behind the statement.
ParseStatementToEnd(p) ==
    Bind(CASE p.currentToken.Type = "SELECT" -> parseSelectStatement(p)
           [] p.currentToken.Type = "CREATE" -> parseCreateStatement(p)
           [] p.currentToken.Type = "INSERT" -> parseInsertStatement(p)
           [] p.currentToken.Type = "UPDATE" -> parseUpdateStatement(p)
           [] p.currentToken.Type = "DELETE" -> parseDeleteStatement(p)
           [] OTHER -> Ret(p, nil, Errorf("unexpected token: %s", p.currentToken.Type)),
         LAMBDA r :
    IF IsNil(r.err) /\ r.p.currentToken.Type \notin {"EOF", "SEMICOLON"}
    THEN Ret(r.p, nil, Errorf("unexpected token: %s", r.p.currentToken.Type))
    ELSE r)

ParseStatement(p) ==
    CASE p.currentToken.Type = "SELECT" -> parseSelectStatement(p)
      [] p.currentToken.Type = "CREATE" -> parseCreateStatement(p)
      [] p.currentToken.Type = "INSERT" -> parseInsertStatement(p)
      [] p.currentToken.Type = "UPDATE" -> parseUpdateStatement(p)
      [] p.currentToken.Type = "DELETE" -> parseDeleteStatement(p)
      [] OTHER -> Ret(p, nil, Errorf("unexpected token: %s", p.currentToken.Type))

\* Parse(sql): what the caller gets.  outcome is "returned" unless the call
\* paniced on a slice of the input or never came back.
Parse(text) ==
    Bind(ParseStatement(NewParser(NewLexer(text))), LAMBDA r :
    IF r.p.lexer.panicked THEN [outcome |-> "panic", stmt |-> nil, err |-> nil]
    ELSE IF r.err = Hang THEN [outcome |-> "hang", stmt |-> nil, err |-> nil]
    ELSE [outcome |-> "returned", stmt |-> r.val, err |-> r.err])

(***************************************************************************)
(* The scanner as a state machine: a caller holding two lexers over one    *)
(* text calls NextToken on the first and GetAllTokens on the second.       *)
(***************************************************************************)

\* Bounds of the scanner specification.
MaxLen == 4
MaxCalls == 6

Pending == [outcome |-> "pending"]

\* The runes the scanned texts are made of.
LexRunes == {"a", "1", " ", "\n", NUL, "-", "'", "="}

RECURSIVE Texts(_, _)
Texts(runes, n) ==
    IF n = 0 THEN {""}
    ELSE LET shorter == Texts(runes, n - 1)
         IN shorter \cup {s \o c : s \in shorter, c \in runes}

InitLex ==
    /\ sql \in Texts(LexRunes, MaxLen)
    /\ form = [kind |-> "text"]
    /\ l = NewLexer(sql)
    /\ toks = <<>>
    /\ g = NewLexer(sql)
    /\ all = Pending
    /\ res = Pending

CallNextToken ==
    /\ Len(toks) < MaxCalls
    /\ \E r \in {NextToken(l)} :
          /\ l' = r.l
          /\ toks' = Append(toks, r.tok)
    /\ UNCHANGED <<sql, form, g, all, res>>

CallGetAllTokens ==
    /\ all = Pending
    /\ \E r \in {GetAllTokens(g)} :
          /\ g' = r.l
          /\ all' = [outcome |-> r.outcome, tokens |-> r.tokens]
    /\ UNCHANGED <<sql, form, l, toks, res>>

NextLex == CallNextToken \/ CallGetAllTokens

Spec == InitLex /\ [][NextLex]_vars

(***************************************************************************)
(* The parser as a state machine: one call of Parse on a text.  The texts  *)
(* are assembled from lexemes; form records how, for the properties.       *)
(***************************************************************************)

\* Bounds of the parser specification.
MaxFields == 2
MaxItems == 2
MaxArgs == 2
MaxTail == 2

RECURSIVE JoinWith(_, _)
JoinWith(words, sep) ==
    IF words = <<>> THEN ""
    ELSE IF Len(words) = 1 THEN words[1]
    ELSE words[1] \o sep \o JoinWith(Tail(words), sep)

Join(words) == JoinWith(words, " ")

\* All sequences over S of a length in lo..hi.
SeqsOf(S, lo, hi) == UNION {[1..n -> S] : n \in lo..hi}

CallParse ==
    /\ res = Pending
    /\ res' = Parse(sql)
    /\ UNCHANGED <<sql, form, l, toks, g, all>>

NextParse == CallParse

\* The part of Init every parser specification shares.
Idle ==
    /\ l = NewLexer(sql)
    /\ toks = <<>>
    /\ g = NewLexer(sql)
    /\ all = Pending
    /\ res = Pending

\* The lexemes of the primary expressions and the node each one denotes,
\* position aside.
PrimaryNode ==
    [w \in {"a", "id", "'s'", "1", "123", "TRUE", "FALSE", "?", ":n"} |->
        CASE w \in {"a", "id"} -> [kind |-> "Identifier", Name |-> w]
          [] w = "'s'" -> [kind |-> "StringLiteral", Value |-> "s"]
          [] w \in {"1", "123"} -> [kind |-> "NumberLiteral", Value |-> w]
          [] w = "TRUE" -> [kind |-> "BooleanLiteral", Value |-> TRUE]
          [] w = "FALSE" -> [kind |-> "BooleanLiteral", Value |-> FALSE]
          [] w = "?" -> [kind |-> "Parameter", Name |-> ""]
          [] w = ":n" -> [kind |-> "Parameter", Name |-> ":n"]]

FieldWords == {"a", "'s'", "1", "TRUE", "?", ":n"}

TableWords == {"t", "users"}

\* SELECT e1, ..., en FROM t
InitSelectFrom ==
    /\ \E fields \in SeqsOf(FieldWords, 1, MaxFields), table \in TableWords :
          /\ form = [kind |-> "selectFrom", fields |-> fields, table |-> table]
          /\ sql = "SELECT " \o JoinWith(fields, ", ") \o " FROM " \o table
    /\ Idle

OperandWords == {"id", "123", "'s'", "?", ":n", "TRUE"}

OperatorWords == {"=", "==", "!=", "<>", ">", "<", ">=", "<=", "LIKE"}

\* DELETE FROM users WHERE <left> <op> <right>, SELECT * FROM users WHERE <left> <op> <right>
InitWhere ==
    /\ \E head \in {"DELETE FROM users", "SELECT * FROM users"},
          left \in OperandWords, op \in OperatorWords, right \in OperandWords :
          /\ form = [kind |-> "where", head |-> head, left |-> left, op |-> op,
                     right |-> right]
          /\ sql = Join(<<head, "WHERE", left, op, right>>)
    /\ Idle

\* The type of the first token of a text.
FirstType(text) == NextToken(NewLexer(text)).tok.Type

PrimaryStart ==
    {"IDENTIFIER", "COUNT", "SUM", "AVG", "MIN", "MAX", "STRING", "NUMBER", "TRUE",
     "FALSE", "PARAMETER", "NAMED_PARAMETER"}

DataTypes ==
    {"INTEGER", "INT", "TEXT", "VARCHAR", "CHAR", "REAL", "BLOB", "BOOLEAN",
     "DATETIME", "TIMESTAMP"}

\* The places where the grammar demands an element: the text before the
\* place, and the token types that may stand there.
MandatoryPlaces ==
    {[pre |-> "SELECT", may |-> PrimaryStart \cup {"ASTERISK"}],
     [pre |-> "SELECT * FROM", may |-> {"IDENTIFIER"}],
     [pre |-> "SELECT a FROM", may |-> {"IDENTIFIER"}],
     [pre |-> "SELECT a, b FROM", may |-> {"IDENTIFIER"}],
     [pre |-> "SELECT 1 FROM", may |-> {"IDENTIFIER"}],
     [pre |-> "SELECT 's', ? FROM", may |-> {"IDENTIFIER"}],
     [pre |-> "SELECT * FROM t ORDER", may |-> {"BY"}],
     [pre |-> "SELECT 1 FROM t WHERE 1 = 1 ORDER", may |-> {"BY"}],
     [pre |-> "CREATE", may |-> {"TABLE"}],
     [pre |-> "CREATE TABLE", may |-> {"IDENTIFIER"}],
     [pre |-> "CREATE TABLE t", may |-> {"LPAREN"}],
     [pre |-> "CREATE TABLE t (", may |-> {"RPAREN", "IDENTIFIER"}],
     [pre |-> "CREATE TABLE t (a",
      may |-> {"RPAREN", "COMMA", "PRIMARY", "NOT"} \cup DataTypes],
     [pre |-> "CREATE TABLE t (a INTEGER NOT NULL",
      may |-> {"RPAREN", "COMMA", "PRIMARY", "NOT"}],
     [pre |-> "CREATE TABLE t (a PRIMARY", may |-> {"KEY"}],
     [pre |-> "CREATE TABLE t (a INTEGER NOT", may |-> {"NULL"}],
     [pre |-> "DELETE", may |-> {"FROM"}],
     [pre |-> "DELETE FROM", may |-> {"IDENTIFIER"}],
     [pre |-> "INSERT", may |-> {"IDENTIFIER", "INSERT"}],
     [pre |-> "INSERT INSERT", may |-> {"IDENTIFIER"}],
     [pre |-> "UPDATE", may |-> {"IDENTIFIER"}]}

\* What stands at the place instead ("": the text ends there).
OtherWords ==
    {"", "t", "1", "'s'", "*", ",", "(", ")", ";", "@", "FROM", "WHERE", "TABLE",
     "BY", "KEY", "NULL", "SELECT"}

\* <pre> <found> [<more>], where found is none of the elements the place allows
InitMissing ==
    /\ \E place \in MandatoryPlaces, found \in OtherWords, more \in {"", "t", ")"} :
          /\ FirstType(found) \notin place.may
          /\ found = "" => more = ""
          /\ form = [kind |-> "missing", pre |-> place.pre, found |-> found, more |-> more]
          /\ sql = place.pre \o (IF found = "" THEN "" ELSE " " \o found)
                             \o (IF more = "" THEN "" ELSE " " \o more)
    /\ Idle

StatementKeywords == {"SELECT", "CREATE", "INSERT", "UPDATE", "DELETE"}

LeadWords ==
    {"", "FOO", "foo", "TABLE", "FROM", "WHERE", "TRUNCATE", "DROP", "1", "'x'",
     "TRUE", "(", ";", "*", "=", "?", ":n", "@", "!", NUL}

TailWords == {"SELECT", "1", "FROM", "t", "BAR"}

\* <lead> <tail>: the text starts with something that starts no statement
InitLead ==
    /\ \E lead \in LeadWords, tail \in SeqsOf(TailWords, 0, MaxTail) :
          /\ form = [kind |-> "lead", lead |-> lead, tail |-> tail]
          /\ sql = Join(<<lead>> \o tail)
    /\ Idle

FunctionWords == {"f", "COUNT", "SUM", "AVG", "MIN", "MAX"}

ArgumentWords == {"a", "1"}

\* SELECT name(a1, ..., an) FROM users, the same without its ")", and SELECT name FROM users
InitCall ==
    /\ \E name \in FunctionWords, args \in SeqsOf(ArgumentWords, 0, MaxArgs),
          shape \in {"call", "unclosed", "bare"} :
          /\ shape = "bare" => args = <<>>
          /\ form = [kind |-> "call", name |-> name, args |-> args, shape |-> shape]
          /\ sql = "SELECT " \o name
                     \o (IF shape = "bare" THEN "" ELSE "(" \o JoinWith(args, ", "))
                     \o (IF shape = "call" THEN ")" ELSE "")
                     \o " FROM users"
    /\ Idle

\* SELECT * FROM t ORDER BY e1 [ASC|DESC], ..., en [ASC|DESC]
InitOrderBy ==
    /\ \E items \in SeqsOf({"a", "1"} \X {"", "ASC", "DESC"}, 1, MaxItems) :
          /\ form = [kind |-> "orderBy", items |-> items]
          /\ sql = "SELECT * FROM t ORDER BY "
                     \o JoinWith([i \in DOMAIN items |->
                                     items[i][1] \o (IF items[i][2] = "" THEN ""
                                                     ELSE " " \o items[i][2])], ", ")
    /\ Idle

\* SELECT <fields> FROM t <ref> <rest>: ref is "AS a", "a", nothing, or a
\* dangling AS that no identifier follows
InitTableRef ==
    /\ \E fields \in {"*", "1", "'s', ?"},
          ref \in {"AS a", "a", "", "AS", "AS 1", "AS WHERE", "AS AS"},
          rest \in {"", "WHERE 1 = 1", "ORDER BY 1", "LIMIT 1", ";"} :
          /\ form = [kind |-> "tableRef", fields |-> fields, ref |-> ref, rest |-> rest]
          /\ sql = "SELECT " \o fields \o " FROM t"
                     \o (IF ref = "" THEN "" ELSE " " \o ref)
                     \o (IF rest = "" THEN "" ELSE " " \o rest)
    /\ Idle

InitParse ==
    \/ InitSelectFrom
    \/ InitWhere
    \/ InitMissing
    \/ InitLead
    \/ InitCall
    \/ InitOrderBy
    \/ InitTableRef

SpecParse == InitParse /\ [][NextParse]_vars

\* Bounds of the specification of Parse on arbitrary texts.
MaxText == 3
MaxWords == 2

\* The runes the read* functions of the scanner branch on.
ParseRunes ==
    {"a", "0", "x", "e", ".", "-", "[", "]", ":", "$", "'", "\"", "\\", "/", "*", "\n",
     " ", NUL}

\* The words the parser's clauses and loops branch on.
ParseWords ==
    {"a", "1", ",", "(", ")", "*", "=", "AS", "FROM", "WHERE", "ORDER", "BY", "DESC",
     "LIMIT", "OFFSET", "PRIMARY", "KEY", "NOT", "NULL", "UNIQUE", "INTEGER", "COUNT"}

\* <head><text>: any runes after the start of a statement
InitText ==
    /\ \E head \in {"", "SELECT ", "SELECT * FROM ", "CREATE TABLE ", "UPDATE "},
          text \in Texts(ParseRunes, MaxText) :
          /\ form = [kind |-> "text", head |-> head, text |-> text]
          /\ sql = head \o text
    /\ Idle

\* <head> <words>: any words after a statement's opening
InitWords ==
    /\ \E head \in {"", "SELECT", "SELECT * FROM t", "SELECT 1 FROM t WHERE",
                    "SELECT 1 FROM t ORDER BY", "SELECT 1 FROM t LIMIT",
                    "CREATE TABLE t (", "CREATE TABLE t ( a", "DELETE FROM t",
                    "INSERT", "UPDATE"},
          words \in SeqsOf(ParseWords, 0, MaxWords) :
          /\ form = [kind |-> "words", head |-> head, words |-> words]
          /\ sql = Join(<<head>> \o words)
    /\ Idle

InitAny == InitText \/ InitWords \/ InitParse

SpecAny == InitAny /\ [][NextParse]_vars

\* A node without its positions.
RECURSIVE Strip(_)
Strip(node) ==
    CASE node.kind = "BinaryExpression" ->
           [kind |-> "BinaryExpression", Left |-> Strip(node.Left),
            Operator |-> node.Operator, Right |-> Strip(node.Right)]
      [] node.kind = "FunctionCall" ->
           [kind |-> "FunctionCall", Name |-> node.Name,
            Args |-> [i \in DOMAIN node.Args |-> Strip(node.Args[i])]]
      [] node.kind = "nil" -> node
      [] OTHER -> [k \in DOMAIN node \ {"Pos_"} |-> node[k]]

Returned == res.outcome = "returned"

Succeeded == Returned /\ IsNil(res.err) /\ ~IsNil(res.stmt)

Failed == Returned /\ ~IsNil(res.err) /\ IsNil(res.stmt)

(***************************************************************************)
(* Properties                                                              *)
(***************************************************************************)

StrippedAll(nodes) == [i \in DOMAIN nodes |-> Strip(nodes[i])]

NodesOf(words) == [i \in DOMAIN words |-> PrimaryNode[words[i]]]

\* C1: for every text SELECT e1, ..., en FROM t (each ei a primary expression,
\* t an identifier) Parse returns a SelectStatement whose Fields are exactly
\* the n expressions in source order and whose From is present and names t.
C1_SelectFieldsAndFrom ==
    (form.kind = "selectFrom" /\ res # Pending) =>
        /\ Succeeded
        /\ res.stmt.kind = "SelectStatement"
        /\ StrippedAll(res.stmt.Fields) = NodesOf(form.fields)
        /\ ~IsNil(res.stmt.From)
        /\ res.stmt.From.Name.Name = form.table

\* C2: for a WHERE clause <left> <op> <right> over primary expressions and
\* the comparison operators, the parsed Where is the BinaryExpression of
\* that Left, the operator's text and that Right.
C2_WhereIsBinaryExpression ==
    (form.kind = "where" /\ res # Pending) =>
        /\ Succeeded
        /\ res.stmt.kind = IF form.head = "DELETE FROM users"
                           THEN "DeleteStatement" ELSE "SelectStatement"
        /\ Strip(res.stmt.Where) =
              [kind |-> "BinaryExpression", Left |-> PrimaryNode[form.left],
               Operator |-> form.op, Right |-> PrimaryNode[form.right]]

\* C3: whenever a mandatory grammar element is missing (the token at its
\* place is none the grammar allows there, or the text ends), Parse returns
\* an error and no statement.
C3_MissingElementIsError ==
    (form.kind = "missing" /\ res # Pending) => Failed

\* C4: for every text whose first token is not SELECT, CREATE, INSERT,
\* UPDATE or DELETE, Parse returns an error and never a statement.
C4_OtherLeadIsError ==
    (res # Pending /\ FirstType(sql) \notin StatementKeywords) => Failed

\* C4's case: a text led by the identifier FOO, by another keyword, by a
\* literal, by an ILLEGAL rune and the empty text have all been parsed.
C4_Witness ==
    /\ res # Pending
    /\ form.kind = "lead"
    /\ form.lead \in {"FOO", "TABLE", "1", "@", ""}
    /\ form.tail \in {<<>>, <<"SELECT", "1">>}
    /\ Failed

\* C8: an identifier or COUNT, SUM, AVG, MIN, MAX followed by "(" yields a
\* FunctionCall with that name and the arguments up to the mandatory ")"
\* (an error without the ")"); without "(" it yields an Identifier.
C8_FunctionCall ==
    (form.kind = "call" /\ res # Pending) =>
        CASE form.shape = "call" ->
               /\ Succeeded
               /\ StrippedAll(res.stmt.Fields) =
                     <<[kind |-> "FunctionCall", Name |-> form.name,
                        Args |-> NodesOf(form.args)]>>
          [] form.shape = "unclosed" -> Failed
          [] form.shape = "bare" ->
               /\ Succeeded
               /\ StrippedAll(res.stmt.Fields) =
                     <<[kind |-> "Identifier", Name |-> form.name]>>

\* C9: the OrderBy of SELECT ... ORDER BY e1 [ASC|DESC], ..., en [ASC|DESC]
\* has one item per listed expression, in source order, with Direction DESC
\* when DESC follows the expression and ASC when ASC or nothing follows it.
C9_OrderByItems ==
    (form.kind = "orderBy" /\ res # Pending) =>
        /\ Succeeded
        /\ [i \in DOMAIN res.stmt.OrderBy |->
               <<Strip(res.stmt.OrderBy[i].Expression), res.stmt.OrderBy[i].Direction>>]
           = [i \in DOMAIN form.items |->
               <<PrimaryNode[form.items[i][1]],
                 IF form.items[i][2] = "DESC" THEN "DESC" ELSE "ASC">>]

\* C10: in a SELECT's FROM clause "t AS a" and "t a" both give a TableRef
\* with Name t and Alias a; a table name that no identifier follows gives a
\* TableRef with no alias; "t AS" that no identifier follows is an error.
C10_TableRefAlias ==
    (form.kind = "tableRef" /\ res # Pending) =>
        CASE form.ref \in {"AS a", "a"} ->
               /\ Succeeded
               /\ ~IsNil(res.stmt.From)
               /\ res.stmt.From.Name.Name = "t"
               /\ ~IsNil(res.stmt.From.Alias)
               /\ res.stmt.From.Alias.Name = "a"
          [] form.ref = "" ->
               /\ Succeeded
               /\ ~IsNil(res.stmt.From)
               /\ res.stmt.From.Name.Name = "t"
               /\ IsNil(res.stmt.From.Alias)
          [] OTHER -> Failed

\* C5: for every text Parse terminates and returns normally (no panic on an
\* index or slice of the input, no endless loop) with exactly one of a
\* statement and no error, or an error.
C5_ParseAlwaysReturns ==
    res # Pending => (Returned /\ (Succeeded \/ Failed))

\* C5's case: Parse has returned a statement for one text and an error for
\* another text that ends inside a bracket identifier, a number or a name.
C5_Witness ==
    /\ res # Pending
    /\ \/ form.kind = "text" /\ form.head = "SELECT " /\ form.text \in {"[", "0x", ":a", "[a]"}
       \/ form.kind = "words" /\ form.head = "CREATE TABLE t ( a" /\ form.words = <<"UNIQUE", ")">>
    /\ Succeeded \/ Failed

\* The index of the first EOF token of a sequence that has one.
FirstEOF(tokens) ==
    CHOOSE i \in DOMAIN tokens :
        tokens[i].Type = "EOF" /\ \A j \in 1..(i - 1) : tokens[j].Type # "EOF"

HasEOF(tokens) == \E i \in DOMAIN tokens : tokens[i].Type = "EOF"

\* C6: once NextToken has returned an EOF token, every later NextToken call
\* on the same lexer returns an EOF token with empty text, for every input
\* text, a text with a zero byte included.
C6_EOFIsFinal ==
    \A i \in DOMAIN toks : \A j \in DOMAIN toks :
        (i < j /\ toks[i].Type = "EOF") => (toks[j].Type = "EOF" /\ toks[j].Value = "")

\* C7: GetAllTokens on a fresh lexer terminates and returns exactly the
\* tokens successive NextToken calls on a second fresh lexer over the same
\* text return up to and including the first EOF: the result ends with an
\* EOF token and holds no other.
C7_GetAllTokensIsNextTokenToEOF ==
    all # Pending =>
        /\ all.outcome = "returned"
        /\ all.tokens # <<>>
        /\ all.tokens[Len(all.tokens)].Type = "EOF"
        /\ \A i \in 1..(Len(all.tokens) - 1) : all.tokens[i].Type # "EOF"
        /\ HasEOF(toks) => all.tokens = SubSeq(toks, 1, FirstEOF(toks))
        /\ ~HasEOF(toks) =>
              /\ Len(toks) < Len(all.tokens)
              /\ toks = SubSeq(all.tokens, 1, Len(toks))

\* C7's case: GetAllTokens has returned at least two tokens and an EOF, and
\* the NextToken calls on the second lexer have gone past their first EOF.
C7_Witness ==
    /\ all # Pending
    /\ HasEOF(toks)
    /\ Len(toks) > FirstEOF(toks)
    /\ Len(all.tokens) >= 3

(***************************************************************************)
(* Parse on CREATE TABLE, INSERT and UPDATE statements.                    *)
(***************************************************************************)

\* Bounds of the specification of these statements.
MaxColumns == 2
MaxConstraints == 2

\* The name of the i-th column of the tables.
ColumnName(i) == IF i = 1 THEN "id" ELSE IF i = 2 THEN "name" ELSE "c"

\* The data types as written (the name of a type in any case) and none.
TypeWords == {"", "INTEGER", "text"}

ConstraintWords == {"PRIMARY KEY", "NOT NULL"}

\* <name> [type] [constraints]
ColumnText(i, col) ==
    Join(<<ColumnName(i)>> \o (IF col.type = "" THEN <<>> ELSE <<col.type>>) \o col.constraints)

ColumnChoices ==
    [type : TypeWords, constraints : SeqsOf(ConstraintWords, 0, MaxConstraints)]

\* CREATE TABLE t (c1 [type] [constraints], ..., cn [type] [constraints])
InitCreate ==
    /\ \E table \in TableWords, columns \in SeqsOf(ColumnChoices, 1, MaxColumns) :
          /\ form = [kind |-> "create", table |-> table, columns |-> columns]
          /\ sql = "CREATE TABLE " \o table \o " ("
                   \o JoinWith([i \in DOMAIN columns |-> ColumnText(i, columns[i])], ", ")
                   \o ")"
    /\ Idle

\* What may follow the table name of an INSERT or UPDATE.
FrameWords == {"(", "a", ",", ")", "VALUES", "SET", "=", "1", "WHERE", "'s", ";"}

\* INSERT <identifier> ..., INSERT INSERT <identifier> ..., UPDATE <identifier> ...
InitInsertUpdate ==
    /\ \E head \in {"INSERT", "INSERT INSERT", "UPDATE"},
          table \in {"users", "INTO", "t"},
          rest \in SeqsOf(FrameWords, 0, MaxTail) :
          /\ form = [kind |-> "frame", head |-> head, table |-> table, rest |-> rest]
          /\ sql = Join(<<head, table>> \o rest)
    /\ Idle

\* Statements whose grammar is satisfied at their last token.
CompleteStatements ==
    {"SELECT 1 FROM t", "SELECT 1 FROM t WHERE 1", "SELECT 1 FROM t WHERE 1 = 1",
     "SELECT 1 FROM t LIMIT 1", "INSERT t", "UPDATE t", "DELETE FROM t",
     "DELETE FROM t WHERE 1", "CREATE TABLE t (a INT)"}

\* Tokens none of these statements goes on with: a second statement, a ;,
\* a character that starts no token, a closing parenthesis, a FROM clause
\* out of its place, an identifier, a number.
Stoppers == {"SELECT", ";", "@", ")", "FROM", "x", "2"}

\* A complete statement, one of these tokens and more tokens behind it.
InitTrailing ==
    /\ \E base \in CompleteStatements, stop \in Stoppers,
          more \in SeqsOf(Stoppers \cup {"WHERE", "1", "LIMIT", "="}, 0, MaxTail - 1) :
          /\ form = [kind |-> "trailing", base |-> base, tail |-> <<stop>> \o more]
          /\ sql = Join(<<base, stop>> \o more)
    /\ Idle

\* The statements of the README's list of supported statements, with and
\* without their closing semicolon.
InitReadme ==
    /\ \E text \in {"SELECT name, age FROM users WHERE active = 1",
                     "CREATE TABLE users (id INTEGER PRIMARY KEY, name TEXT)",
                     "INSERT INTO users VALUES (1, 'John')",
                     "UPDATE users SET name = 'Jane' WHERE id = 1",
                     "DELETE FROM users WHERE id = 1"},
          end \in {"", ";"} :
          /\ form = [kind |-> "readme", text |-> text, end |-> end]
          /\ sql = text \o end
    /\ Idle

InitStatements == InitCreate \/ InitInsertUpdate \/ InitTrailing \/ InitReadme

SpecStatements == InitStatements /\ [][NextParse]_vars

\* The constraint of a column as written, for the node the parser built.
ConstraintWord(node) ==
    IF node.kind = "PrimaryKeyConstraint" THEN "PRIMARY KEY"
    ELSE IF node.kind = "NotNullConstraint" THEN "NOT NULL"
    ELSE "?"

\* C11: Parse of CREATE TABLE t (c1 [type] [constraints], ...) returns a
\* CreateTableStatement with Table t and one ColumnDef per column in source
\* order, each with its name, the text of its type (empty when none is
\* written) and its PRIMARY KEY / NOT NULL constraints in source order.
C11_CreateTableColumns ==
    (form.kind = "create" /\ res # Pending) =>
        /\ Succeeded
        /\ res.stmt.kind = "CreateTableStatement"
        /\ res.stmt.Table.Name = form.table
        /\ Len(res.stmt.Columns) = Len(form.columns)
        /\ \A i \in DOMAIN form.columns :
              /\ res.stmt.Columns[i].Name.Name = ColumnName(i)
              /\ res.stmt.Columns[i].Type = form.columns[i].type
              /\ [k \in DOMAIN res.stmt.Columns[i].Constraints |->
                     ConstraintWord(res.stmt.Columns[i].Constraints[k])]
                 = form.columns[i].constraints

\* C11's case: the users table of the documentation has been parsed, and a
\* table whose column has two constraints and no type.
C11_Witness ==
    /\ form.kind = "create"
    /\ Succeeded
    /\ \/ /\ form.table = "users"
          /\ form.columns = <<[type |-> "INTEGER", constraints |-> <<"PRIMARY KEY">>],
                              [type |-> "text", constraints |-> <<"NOT NULL">>]>>
       \/ form.columns = <<[type |-> "", constraints |-> <<"NOT NULL", "PRIMARY KEY">>]>>

\* C12: Parse of INSERT <identifier> ... and of INSERT INSERT <identifier> ...
\* returns an InsertStatement with that Table and empty Columns and Values;
\* Parse of UPDATE <identifier> ... returns an UpdateStatement with that
\* Table, an empty Set and no Where, whatever follows the table name.
C12_InsertUpdateFrame ==
    (form.kind = "frame" /\ res # Pending) =>
        /\ Succeeded
        /\ res.stmt.Table.Name = form.table
        /\ IF form.head = "UPDATE"
           THEN /\ res.stmt.kind = "UpdateStatement"
                /\ res.stmt.Set = <<>>
                /\ IsNil(res.stmt.Where)
           ELSE /\ res.stmt.kind = "InsertStatement"
                /\ res.stmt.Columns = <<>>
                /\ res.stmt.Values = <<>>

\* C12's case: an UPDATE with a WHERE clause and an INSERT with a column
\* list behind the table name have been parsed.
C12_Witness ==
    /\ form.kind = "frame"
    /\ Succeeded
    /\ \/ form.head = "UPDATE" /\ form.rest = <<"WHERE", "1">>
       \/ form.head = "INSERT INSERT" /\ form.rest = <<"(", "a">>

\* C29: INTO, VALUES and SET are not in the keyword table and scan as
\* IDENTIFIER; so Parse of INSERT INTO users VALUES (1, 'John') succeeds and
\* returns an InsertStatement whose Table name is INTO, not users.
C29_IntoIsTheTable ==
    /\ \A word \in {"INTO", "VALUES", "SET"} :
          /\ word \notin keywords
          /\ lookupIdent(word) = "IDENTIFIER"
          /\ NextToken(NewLexer(word)).tok.Type = "IDENTIFIER"
          /\ NextToken(NewLexer(word)).tok.Value = word
    /\ (sql = "INSERT INTO users VALUES (1, 'John')" /\ res # Pending) =>
          /\ Succeeded
          /\ res.stmt.kind = "InsertStatement"
          /\ res.stmt.Table.kind = "Identifier"
          /\ res.stmt.Table.Name = "INTO"

\* C29's case: the README's INSERT statement has been parsed.
C29_Witness ==
    /\ form.kind = "readme"
    /\ sql = "INSERT INTO users VALUES (1, 'John')"
    /\ Returned

(***************************************************************************)
(* The scanner on texts of operators, strings, numbers and comments.       *)
(***************************************************************************)

\* The most pieces between the quotes of a string.
MaxPieces == 3

\* The length of the patterns of upper and lower case laid over a word.
MaxMask == 3

\* The runes of the one- and two-rune operators, with a letter, a blank and
\* a newline between them.
OperatorRunes == {"!", "=", "<", ">", "|", "a", " ", "\n"}

InitOperators ==
    /\ sql \in Texts(OperatorRunes, MaxLen)
    /\ form = [kind |-> "operators"]
    /\ Idle

\* The index (from 1) of the first rune of text at or behind index k that
\* is no blank, tab or line end; Len(text) + 1 when there is none.
RECURSIVE NextMark(_, _)
NextMark(text, k) ==
    IF k > Len(text) THEN Len(text) + 1
    ELSE IF SubSeq(text, k, k) \in {" ", "\t", "\n", "\r"} THEN NextMark(text, k + 1)
    ELSE k

\* The token a NextToken step has just returned.
Returns(type, value) ==
    /\ toks'[Len(toks')].Type = type
    /\ toks'[Len(toks')].Value = value

\* A NextToken step that starts with the rune ch as the next mark of the text.
ScansAt(ch) ==
    /\ toks' # toks
    /\ NextMark(sql, l.position + 1) <= Len(sql)
    /\ SubSeq(sql, NextMark(sql, l.position + 1), NextMark(sql, l.position + 1)) = ch

\* ScansAt(ch) with the rune behind the mark being (or not being) after.
ScansAtBefore(ch, after) ==
    /\ ScansAt(ch)
    /\ NextMark(sql, l.position + 1) < Len(sql)
    /\ SubSeq(sql, NextMark(sql, l.position + 1) + 1, NextMark(sql, l.position + 1) + 1) = after

\* C13: scanning a ! that = does not follow yields an ILLEGAL token, and
\* scanning != yields one NOT_EQUAL token with the text !=.
C13_BangAloneIsIllegal ==
    [][/\ ScansAtBefore("!", "=") => Returns("NOT_EQUAL", "!=")
       /\ (ScansAt("!") /\ ~ScansAtBefore("!", "=")) => toks'[Len(toks')].Type = "ILLEGAL"]_vars

\* C13 as the scanner has it: a ! that = does not follow yields a BANG
\* token with the text !, and != yields one NOT_EQUAL token with the text
\* != (the token behind it starts behind the =).
C13_BangAloneIsBang ==
    [][/\ ScansAtBefore("!", "=") =>
             /\ Returns("NOT_EQUAL", "!=")
             /\ l'.position = NextMark(sql, l.position + 1) + 1
       /\ (ScansAt("!") /\ ~ScansAtBefore("!", "=")) =>
             /\ Returns("BANG", "!")
             /\ l'.position = NextMark(sql, l.position + 1)]_vars

\* C13's case: a ! alone and a != have both been scanned in one text.
C13_Witness ==
    /\ form.kind = "operators"
    /\ \E i \in DOMAIN toks : toks[i].Type = "BANG"
    /\ \E i \in DOMAIN toks : toks[i].Type = "NOT_EQUAL"

\* C14: every token NextToken returns has Line >= 1 and Col >= 1, for the
\* empty text, texts with newlines and tokens that end before a newline.
C14_PositionsFromOne ==
    \A i \in DOMAIN toks : toks[i].Line >= 1 /\ toks[i].Col >= 1

\* (Line, Col) of token a is not behind (Line, Col) of token b.
NotBehind(a, b) == a.Line < b.Line \/ (a.Line = b.Line /\ a.Col <= b.Col)

\* C15: over the successive NextToken calls on one lexer the (Line, Col)
\* pairs of the tokens never decrease in lexicographic order, the tokens of
\* the two-rune operators (Col computed as col - 1) included.
C15_PositionsNeverDecrease ==
    \A i \in DOMAIN toks : \A j \in DOMAIN toks : i < j => NotBehind(toks[i], toks[j])

\* C15's case: a two-rune operator has been scanned behind another token
\* of its line, and a token behind a newline.
C15_Witness ==
    /\ \E i \in DOMAIN toks :
          /\ i > 1
          /\ toks[i].Type \in {"NOT_EQUAL", "LESS_EQUAL", "NOT_EQUAL2", "CONCAT"}
          /\ toks[i - 1].Line = toks[i].Line
    /\ \E i \in DOMAIN toks : toks[i].Line > 1 /\ toks[i].Type # "EOF"

\* The line (from 1) of the rune at offset k (from 0) of text.
LineAt(text, k) == 1 + Cardinality({i \in 1..k : SubSeq(text, i, i) = "\n"})

\* The column (from 1) of the rune at offset k (from 0) of text: its
\* distance from the last newline before it, or from the start of the text.
ColAt(text, k) ==
    k + 1 - Cardinality({i \in 1..k : \E j \in i..k : SubSeq(text, j, j) = "\n"})

\* C16: GetCurrentPosition is the 1-based (line, column) of the next unread
\* rune, on a fresh lexer and after every NextToken call, a newline as the
\* next unread rune included.
C16_CurrentPositionIsNextUnread ==
    l.position < Len(sql) =>
        GetCurrentPosition(l) = <<LineAt(sql, l.position), ColAt(sql, l.position)>>

\* C17: IsAtEnd is true exactly when the whole text has been consumed: false
\* on a fresh lexer over a text that is not empty, true after GetAllTokens
\* has returned, texts with zero bytes included.
C17_IsAtEndIffConsumed ==
    /\ IsAtEnd(l) <=> l.position >= Len(sql)
    /\ all # Pending => IsAtEnd(g)

\* What stands between the quotes of a string: a letter, a blank, a doubled
\* quote, a backslash and a quote, a backslash, a zero byte, a byte above 0x7F.
StringPieces == {"a", " ", "''", "\\'", "\\", NUL, HighByte}

\* The text behind the closing quote, by the token it scans to.
StringTails == [EOF |-> "", COMMA |-> ",", IDENTIFIER |-> " a"]

\* A terminated single-quoted string and a tail.  A backslash piece is one
\* that no quote follows: it is neither the last piece nor before a doubled
\* quote.
InitString ==
    /\ \E pieces \in SeqsOf(StringPieces, 0, MaxPieces), tail \in DOMAIN StringTails :
          /\ \A i \in DOMAIN pieces :
                pieces[i] = "\\" => (i < Len(pieces) /\ pieces[i + 1] # "''")
          /\ form = [kind |-> "string", pieces |-> pieces, tail |-> tail]
          /\ sql = "'" \o JoinWith(pieces, "") \o "'" \o StringTails[tail]
    /\ Idle

\* The text a string of these pieces denotes: the two spellings of a quote
\* are a quote, every other piece is itself.
Decoded(pieces) ==
    JoinWith([i \in DOMAIN pieces |->
                 IF pieces[i] \in {"''", "\\'"} THEN "'" ELSE pieces[i]], "")

\* C18: a terminated single-quoted string scans to exactly one STRING token
\* whose text has a quote for every '' and every backslash-quote and every
\* other character unchanged; the token behind it is the one of the tail.
C18_StringDecoded ==
    form.kind = "string" =>
        /\ Len(toks) >= 1 => (toks[1].Type = "STRING" /\ toks[1].Value = Decoded(form.pieces))
        /\ Len(toks) >= 2 => toks[2].Type = form.tail

\* C18 on strings of ASCII characters with no zero byte.
C18_PlainStringDecoded ==
    (form.kind = "string" /\ \A i \in DOMAIN form.pieces : form.pieces[i] \notin {NUL, HighByte})
        => C18_StringDecoded

\* The spellings of a number without an exponent, and the exponents.
Mantissas == {"1", "0", "456", "1.23", "456.78", "0.5", ".5"}

Exponents == {"", "e5", "E12", "e-4", "E+1"}

\* The spellings of a number in base 16.
HexWords == {"0xFF", "0X1a", "0x0", "0Xe"}

\* The longest run of hex digits text starts with.
RECURSIVE HexRun(_)
HexRun(text) ==
    IF text # "" /\ isHexDigit(SubSeq(text, 1, 1))
    THEN SubSeq(text, 1, 1) \o HexRun(SubSeq(text, 2, Len(text)))
    ELSE ""

\* A number and the text behind it; the text behind a decimal number starts
\* with nothing the spelling could go on with.
InitNumber ==
    /\ \/ \E m \in Mantissas, e \in Exponents, tail \in {"", " ", ",", ")", "+1", "g", "."} :
             /\ form = [kind |-> "number", literal |-> m \o e]
             /\ sql = m \o e \o tail
       \/ \E h \in HexWords, tail \in {"", " ", ",", ".5", "-4", "e-4", "E+1", "g", "x1"} :
             /\ form = [kind |-> "number", literal |-> h \o HexRun(tail)]
             /\ sql = h \o tail
    /\ Idle

\* C19: a digit run, a digit run with a fraction, a fraction alone, each of
\* them with an exponent (e or E, an optional sign, digits), and 0x or 0X
\* with hex digits scan to one NUMBER token whose text is the whole spelling;
\* a hex number ends before the first rune that is no hex digit, and the
\* scanner is left right behind the spelling.
C19_NumberIsOneToken ==
    (form.kind = "number" /\ Len(toks) >= 1) =>
        /\ toks[1].Type = "NUMBER"
        /\ toks[1].Value = form.literal
        /\ toks[1].Value \o SubSeq(sql, l.position + 1, Len(sql)) = sql \/ Len(toks) > 1

\* C19's case: a hex number before a decimal point has been scanned, and
\* the fraction behind it.
C19_Witness ==
    /\ form.kind = "number"
    /\ sql = "0xFF.5"
    /\ Len(toks) = 2
    /\ toks[1].Value = "0xFF"
    /\ toks[2].Value = ".5"

\* The lexemes a comment is put between.
CommentTokens == {"a", "1", "1e", "-", "/", "*", "=", "'s'"}

\* A line comment up to its newline, and a block comment.
Comments ==
    {"--" \o c \o "\n" : c \in {"", " c", "-", "'", "/*", NUL}}
        \cup {"/*" \o c \o "*/" : c \in {"", " c ", "*", "\n", "'", "--", NUL}}

\* Two lexemes with a comment between them scanned by NextToken, and the
\* same two with a blank between them scanned by GetAllTokens.
InitComment ==
    /\ \E first \in CommentTokens, second \in CommentTokens, gap \in Comments :
          /\ form = [kind |-> "comment", first |-> first, gap |-> gap,
                     plain |-> first \o " " \o second]
          /\ sql = first \o gap \o second
    /\ l = NewLexer(sql)
    /\ toks = <<>>
    /\ g = NewLexer(form.plain)
    /\ all = Pending
    /\ res = Pending

\* The tokens of the text with the comment are those of the text with the
\* blank, kind by kind and text by text, as far as both have been returned.
SameAsPlain ==
    all # Pending =>
        \A i \in DOMAIN toks \cap DOMAIN all.tokens :
            /\ toks[i].Type = all.tokens[i].Type
            /\ toks[i].Value = all.tokens[i].Value

\* C20: a line comment up to its newline or a block comment in the place of
\* the blank between two tokens leaves the (kind, text) pairs of the tokens
\* as they were; no LINE_COMMENT or BLOCK_COMMENT token is ever returned; a
\* lone - is MINUS and a lone / is DIVIDE.
C20_CommentsAreInvisible ==
    /\ \A i \in DOMAIN toks : toks[i].Type \notin {"LINE_COMMENT", "BLOCK_COMMENT"}
    /\ form.kind = "comment" =>
          /\ SameAsPlain
          /\ (all # Pending /\ form.first = "-") => all.tokens[1].Type = "MINUS"
          /\ (all # Pending /\ form.first = "/") => all.tokens[1].Type = "DIVIDE"

\* C20 on comments with no zero byte in them that stand neither behind a -
\* nor behind a number that ends in its e, when they are line comments.
C20_CommentsAreInvisibleElsewhere ==
    (/\ form.kind = "comment"
     /\ \A k \in 1..Len(form.gap) : SubSeq(form.gap, k, k) # NUL
     /\ SubSeq(form.gap, 1, 2) = "--" => form.first \notin {"-", "1e"})
        => C20_CommentsAreInvisible

\* The two-rune operators: first rune, second rune, kind.
OperatorPairs ==
    {<<"=", "=", "EQUAL">>, <<">", "=", "GREATER_EQUAL">>, <<"<", "=", "LESS_EQUAL">>,
     <<"<", ">", "NOT_EQUAL2">>, <<"!", "=", "NOT_EQUAL">>, <<"|", "|", "CONCAT">>}

\* The one-rune operators that start a two-rune one: rune and kind.
OperatorHeads == {<<"=", "EQUAL">>, <<">", "GREATER">>, <<"<", "LESS">>, <<"|", "PIPE">>}

InitParameters ==
    /\ sql \in Texts({"?", ":", "$", "a", "_", "1", " "}, MaxLen)
    /\ form = [kind |-> "parameters"]
    /\ Idle

\* The rune right behind the next mark of the text; "" at input end.
BehindMark ==
    IF NextMark(sql, l.position + 1) < Len(sql)
    THEN SubSeq(sql, NextMark(sql, l.position + 1) + 1, NextMark(sql, l.position + 1) + 1)
    ELSE ""

\* The longest run of letters, digits and underscores text starts with.
RECURSIVE NameRun(_)
NameRun(text) ==
    IF text # "" /\ (SubSeq(text, 1, 1) \in LowerLetters \cup UpperLetters \cup Digits \cup {"_"})
    THEN SubSeq(text, 1, 1) \o NameRun(SubSeq(text, 2, Len(text)))
    ELSE ""

Delimiters == {<<"\"", "\"">>, <<Backtick, Backtick>>, <<"[", "]">>}

\* What stands between the delimiters: words, a keyword in both cases, text
\* with a blank, a quote, a backslash, an opening bracket, a byte above 0x7F
\* and a zero byte.
QuotedWords ==
    {"", "a", "select", "SELECT", "col name", "a'b", "a\\b", "a[b", "a1", HighByte, "a" \o NUL \o "b"}

\* A delimited identifier and a tail.
InitQuoted ==
    /\ \E d \in Delimiters, word \in QuotedWords, tail \in DOMAIN StringTails :
          /\ form = [kind |-> "quoted", open |-> d[1], word |-> word, tail |-> tail]
          /\ sql = d[1] \o word \o d[2] \o StringTails[tail]
    /\ Idle

\* C23: text between double quotes, between backticks or between [ and ]
\* scans to one IDENTIFIER token whose text is what stands between the
\* delimiters, a keyword included; the token behind it is the one of the
\* tail.
C23_QuotedIdentifier ==
    form.kind = "quoted" =>
        /\ Len(toks) >= 1 => (toks[1].Type = "IDENTIFIER" /\ toks[1].Value = form.word)
        /\ Len(toks) >= 2 => toks[2].Type = form.tail

\* C23 on identifiers of ASCII characters with no zero byte.
C23_PlainQuotedIdentifier ==
    (form.kind = "quoted" /\ form.word \notin {HighByte, "a" \o NUL \o "b"})
        => C23_QuotedIdentifier

\* word, written in upper case, with the letters in lower case where the
\* pattern, repeated over the word, says so.
RECURSIVE Vary(_, _, _)
Vary(word, mask, i) ==
    IF word = "" THEN ""
    ELSE (IF SubSeq(word, 1, 1) \in UpperLetters /\ mask[((i - 1) % Len(mask)) + 1]
          THEN CHOOSE c \in LowerLetters : upperOf[c] = SubSeq(word, 1, 1)
          ELSE SubSeq(word, 1, 1))
         \o Vary(SubSeq(word, 2, Len(word)), mask, i + 1)

\* Every word of the keyword table and some words that are not in it, in
\* the variations of case the patterns give.
InitKeywords ==
    /\ \E word \in keywords \cup {"INTO", "VALUES", "SET", "ASC", "DESC", "SELECTS", "SEL", "X", "TABLE_"},
          mask \in [1..MaxMask -> BOOLEAN] :
          /\ form = [kind |-> "keyword", word |-> word]
          /\ sql = Vary(word, mask, 1)
    /\ Idle

\* C24: an unquoted word of the keyword table, in every variation of upper
\* and lower case, scans to the kind of that keyword with the text as it is
\* written; a word whose upper-case form is not in the table scans to
\* IDENTIFIER.
C24_KeywordsIgnoreCase ==
    (form.kind = "keyword" /\ Len(toks) >= 1) =>
        /\ toks[1].Type = IF form.word \in keywords THEN form.word ELSE "IDENTIFIER"
        /\ toks[1].Value = sql

\* C24's case: a keyword written in mixed case has been scanned.
C24_Witness ==
    /\ form.kind = "keyword"
    /\ sql = "sEleCt"
    /\ Len(toks) = 1
    /\ toks[1].Type = "SELECT"

\* ASCII characters that start no token.
IllegalRunes == {"@", "#", "&", "{"}

\* Texts of such characters, a letter, a blank and the two bytes of the
\* copyright sign, a character outside ASCII that starts no token.
InitIllegal ==
    /\ sql \in Texts(IllegalRunes \cup {"a", " ", UTF8Lead, HighByte}, MaxPieces)
    /\ form = [kind |-> "illegal"]
    /\ Idle

\* A character of ASCII that starts no token scans to one ILLEGAL token with
\* that character as text, and the scanner goes on right behind it.
PlainIllegal ==
    \A c \in IllegalRunes :
        ScansAt(c) =>
            /\ Returns("ILLEGAL", c)
            /\ l'.position = NextMark(sql, l.position + 1)

\* C25: a character that starts no token scans to exactly one ILLEGAL token
\* whose text is that character, and the next NextToken call goes on at the
\* character behind it; so for @, #, & and { and for the copyright sign,
\* which is two bytes.
C25_UnrecognisedIsIllegal ==
    [][/\ PlainIllegal
       /\ ScansAtBefore(UTF8Lead, HighByte) =>
             /\ Returns("ILLEGAL", UTF8Lead \o HighByte)
             /\ l'.position = NextMark(sql, l.position + 1) + 1]_vars

\* C25 on the characters of ASCII.
C25_PlainUnrecognisedIsIllegal == [][PlainIllegal]_vars

\* What opens a text that can be left open, and the kind of its token
\* ("" for the block comment, which has none).
Openers ==
    {<<"'", "STRING">>, <<"\"", "IDENTIFIER">>, <<Backtick, "IDENTIFIER">>,
     <<"[", "IDENTIFIER">>, <<"/*", "">>}

\* What stands behind the opener up to the input end, and the text it
\* denotes: words, a line end, a backslash or a star at the end, a byte above
\* 0x7F, a zero byte, and for a quote q its two spellings qq and backslash q.
OpenTexts(q) ==
    {<<w, w>> : w \in {"", "a", "a b", "a\nb", "a\\", "a*", HighByte, "a" \o NUL \o "b"}}
        \cup (IF q \in {"'", "\"", Backtick}
              THEN {<<"a" \o q \o q \o "b", "a" \o q \o "b">>, <<"a\\" \o q, "a" \o q>>}
              ELSE {})

\* A text that opens a string, a quoted identifier, a bracket identifier or
\* a block comment and never closes it.
InitUnterminated ==
    /\ \E o \in Openers : \E t \in OpenTexts(o[1]) :
          /\ form = [kind |-> "open", type |-> o[2], raw |-> t[1], text |-> t[2]]
          /\ sql = o[1] \o t[1]
    /\ Idle

\* C26: a string, a quoted identifier or a bracket identifier that is not
\* closed scans to one STRING or IDENTIFIER token with the decoded text up
\* to the input end, and a block comment that is not closed to no token; the
\* token behind is EOF and no token is ILLEGAL.
C26_UnterminatedEndsAtInputEnd ==
    form.kind = "open" =>
        /\ \A i \in DOMAIN toks : toks[i].Type # "ILLEGAL"
        /\ (form.type # "" /\ Len(toks) >= 1) =>
              (toks[1].Type = form.type /\ toks[1].Value = form.text)
        /\ (form.type # "" /\ Len(toks) >= 2) => toks[2].Type = "EOF"
        /\ (form.type = "" /\ Len(toks) >= 1) => toks[1].Type = "EOF"

\* C26 on texts of ASCII characters with no zero byte.
C26_PlainUnterminatedEndsAtInputEnd ==
    (form.kind = "open" /\ form.raw \notin {HighByte, "a" \o NUL \o "b"})
        => C26_UnterminatedEndsAtInputEnd

InitScan ==
    InitLex \/ InitOperators \/ InitString \/ InitNumber \/ InitComment \/ InitParameters \/ InitQuoted
        \/ InitKeywords \/ InitIllegal \/ InitUnterminated

SpecScan == InitScan /\ [][NextLex]_vars

\* The types of the tokens NextToken returns from inside its switch.
EarlyTypes == {"IDENTIFIER", "NUMBER", "STRING", "NAMED_PARAMETER"} \cup keywords

\* The 1-based (line, column) of the rune at offset k (from 0) of the text.
At(k) == <<LineAt(sql, k), ColAt(sql, k)>>

\* The token of a NextToken step is of the early kind and marks where: the
\* rune behind it, or the last rune when the token ends the text.
EarlyMarks(where(_)) ==
    (toks' # toks /\ toks'[Len(toks')].Type \in EarlyTypes) =>
        <<toks'[Len(toks')].Line, toks'[Len(toks')].Col>> =
            where(IF l'.position < Len(sql) THEN l'.position ELSE Len(sql) - 1)

\* The token of a NextToken step is a one-rune token or a two-rune operator
\* and marks its first rune.
OthersMarkStart ==
    (toks' # toks /\ toks'[Len(toks')].Type \notin EarlyTypes \cup {"EOF"}) =>
        <<toks'[Len(toks')].Line, toks'[Len(toks')].Col>> =
            At(l'.position - (IF \E pair \in OperatorPairs :
                                     toks'[Len(toks')].Value = pair[1] \o pair[2]
                                THEN 2 ELSE 1))

\* C30: the (Line, Col) of a one-rune token and of a two-rune operator is
\* the position of its first rune; the (Line, Col) of an identifier, keyword,
\* number, string, quoted identifier and named parameter is the position of
\* the rune following the token, or of the last rune when the token ends
\* the text.
C30_TokenPositions ==
    [][OthersMarkStart /\ EarlyMarks(At)]_vars

\* The (line, column) the scanner keeps for the rune at offset k: a newline
\* is counted when it is loaded, as column 0 of the line behind it.
Cursor(k) == IF SubSeq(sql, k + 1, k + 1) = "\n" THEN <<LineAt(sql, k) + 1, 0>> ELSE At(k)

\* C30 with the scanner's own count: the early tokens carry l.line, l.col as
\* they are after the token was read.
C30_TokenPositionsOfTheCursor ==
    [][/\ OthersMarkStart
       /\ EarlyMarks(Cursor)
       /\ EarlyMarks(LAMBDA k : <<l'.line, l'.col>>)]_vars

\* C28: Parse returns as soon as the grammar of the statement is satisfied
\* and asks for no input end and no ; behind it: tokens behind a complete
\* statement (clauses out of their place, a second statement, ILLEGAL
\* tokens) are ignored, and the result is never an error but the statement,
\* as Parse returns it when only a ; stands behind it.
C28_TrailingTokensIgnored ==
    (form.kind = "trailing" /\ res # Pending) =>
        /\ Succeeded
        /\ res.stmt = Parse(form.base \o " ;").stmt

\* C28's case: Parse has returned on a statement with an ILLEGAL token and
\* a WHERE behind it.
C28_Witness ==
    /\ form.kind = "trailing"
    /\ form.base = "SELECT 1 FROM t LIMIT 1"
    /\ form.tail = <<"@", "WHERE">>
    /\ Succeeded

(***************************************************************************)
(* parsePrimary on a fresh parser: one call on a primary and what follows. *)
(***************************************************************************)

\* The token kinds parsePrimary accepts, by a lexeme of each.
PrimaryWords ==
    {"a", "users", "COUNT", "SUM", "AVG", "MIN", "MAX", "'s'", "1", "1.5",
     "TRUE", "FALSE", "?", ":p", "$1"}

\* What follows the primary in the text, and the kind of its first token.
Followers ==
    {<<"", "EOF">>, <<",", "COMMA">>, <<"FROM", "FROM">>, <<")", "RPAREN">>,
     <<"(", "LPAREN">>, <<"b", "IDENTIFIER">>, <<"=", "EQUAL">>, <<"2", "NUMBER">>,
     <<";", "SEMICOLON">>}

InitPrimary ==
    /\ \E w \in PrimaryWords, f \in Followers :
          /\ form = [kind |-> "primary", word |-> w, next |-> f[2]]
          /\ sql = w \o " " \o f[1]
    /\ Idle

\* parser := NewParser(NewLexer(sql)); node, err := parser.parsePrimary()
CallParsePrimary ==
    /\ res = Pending
    /\ \E r \in {parsePrimary(NewParser(NewLexer(sql)))} :
          res' = [outcome |-> "returned", stmt |-> r.val, err |-> r.err,
                  currentToken |-> r.p.currentToken]
    /\ UNCHANGED <<sql, form, l, toks, g, all>>

SpecPrimary == InitPrimary /\ [][CallParsePrimary]_vars

\* C27: when parsePrimary has returned with no error, the current token of
\* the parser is the token that follows the primary in the text, for
\* identifiers and aggregate keywords as for string, number, boolean and
\* parameter primaries.
C27_PrimaryIsConsumed ==
    (form.kind = "primary" /\ res # Pending /\ IsNil(res.err)) =>
        res.currentToken.Type = form.next

\* C27 on the string, number, boolean and parameter primaries.
C27_LiteralIsConsumed ==
    (form.kind = "primary"
     /\ form.word \notin {"a", "users", "COUNT", "SUM", "AVG", "MIN", "MAX"})
        => C27_PrimaryIsConsumed

====
